------------------------ MODULE ZellijCaptureProofs -------------------------
(***************************************************************************)
(* Keyboard capture for any number of menus, any lease length and any      *)
(* number of faults: the state keeps its types, the loss of a capture the  *)
(* broker holds is on its way to it, and a user who did not choose Locked  *)
(* mode is not left in it.                                                 *)
(***************************************************************************)
EXTENDS ZellijCapture, SequenceTheorems, TLAPS

-----------------------------------------------------------------------------
(* The plugin is only told of a capture whose request was sent.             *)

Elements(s) == {s[i] : i \in DOMAIN s}
Ready(l) == [kind |-> "CaptureReady", lease |-> l]
Lost(l) == [kind |-> "CaptureLost", lease |-> l]

(* Requests that the plugin may still read.                                *)
Requests == Elements(queue) \cup {wire} \cup late

(* ... and those among them that were sent.                                *)
SentTo(r) == r \in {wire} \cup late

(* The call has not queued its request, or the request is in the queue.    *)
Unasked(l) == call[l] \in {"none", "admitted", "begun"}
Unsent(l) == Unasked(l) \/ (call[l] = "waiting" /\ waiter[l] = "unsent")

(* What adapter and plugin know of a lease, from the progress of its call. *)
LeaseOk(l) ==
    /\ call[l] = "waiting" <=> waiter[l] # "none"
    /\ call[l] \in {"none", "admitted"} => table.lease # l
    /\ table.lease = l => call[l] \in {"begun", "waiting", "confirmed", "held", "detached"}
    /\ table = [state |-> "Beginning", lease |-> l] => call[l] \in {"begun", "waiting"}
    /\ Req("Begin", l) \in Requests => ~Unasked(l)
    /\ Req("End", l) \in Requests => call[l] \in {"failed", "ended"}
    /\ Unsent(l) =>
          /\ ~SentTo(Req("Begin", l))
          /\ ~Owns(bridge.pending, {l}) /\ ~Owns(bridge.active, {l})
          /\ Ready(l) \notin Elements(events)

TableOk == table.state = "Idle" <=> table.lease = None

(* Without a registration, as when the adapter is suspended, nothing is    *)
(* captured, and what is beginning was not sent.                           *)
Unlinked ==
    /\ broker = "suspended" => link # "registered"
    /\ link # "registered" /\ table # Idle
          => table.state = "Beginning" /\ Unsent(table.lease)

(* One capture at a time in the plugin.                                    *)
OneCapture == ~overtaken => bridge.pending = None \/ bridge.active = None

(* The lease is held by the plugin, or its loss is on the way to the       *)
(* broker, or has arrived there.                                           *)
HeldOrLost(l) ==
    \/ Owns(bridge.active, {l})
    \/ Lost(l) \in Elements(events)
    \/ loss[l] \in {"told", "ignored"}
    \/ call[l] = "detached"

(* The adapter has read, or is about to read, that the capture is ready.   *)
Confirmed(l) ==
    /\ table.lease = l
    /\ \/ table.state = "Captured"
       \/ waiter[l] = "ready"
       \/ waiter[l] = "sent" /\ Ready(l) \in Elements(events)

Reported ==
    broker = "up" /\ link = "registered" /\ bridge.registered /\ ~overtaken
      => \A l \in Leases : Confirmed(l) => HeldOrLost(l)

(* A restoration that is asked for knows the mode.                         *)
PriorKnown ==
    bridge.pending # None /\ bridge.pending.requested => bridge.pending.prior # None

CaptureInv ==
    /\ TypeOK
    /\ PriorKnown
    /\ \A l \in Leases : LeaseOk(l)
    /\ TableOk
    /\ Unlinked
    /\ OneCapture
    /\ Reported

-----------------------------------------------------------------------------
(* Sequences.                                                               *)

LEMMA AppendElements ==
    ASSUME NEW S, NEW s \in Seq(S), NEW e \in S
    PROVE  Append(s, e) \in Seq(S) /\ Elements(Append(s, e)) = Elements(s) \cup {e}
<1>1. Append(s, e) \in Seq(S) /\ Len(Append(s, e)) = Len(s) + 1 /\ Len(s) \in Nat
    OBVIOUS
<1>2. Append(s, e)[Len(s) + 1] = e /\ \A i \in 1..Len(s) : Append(s, e)[i] = s[i]
    OBVIOUS
<1>3. DOMAIN Append(s, e) = 1..(Len(s) + 1) /\ DOMAIN s = 1..Len(s)
    BY <1>1, LenProperties
<1> QED
    BY <1>1, <1>2, <1>3 DEF Elements

LEMMA ConcatElements ==
    ASSUME NEW S, NEW s \in Seq(S), NEW t \in Seq(S)
    PROVE  s \o t \in Seq(S) /\ Elements(s \o t) = Elements(s) \cup Elements(t)
<1>1. /\ s \o t \in Seq(S) /\ Len(s \o t) = Len(s) + Len(t)
      /\ Len(s) \in Nat /\ Len(t) \in Nat
      /\ \A i \in 1..Len(s) + Len(t) : (s \o t)[i] = IF i <= Len(s) THEN s[i] ELSE t[i - Len(s)]
    BY ConcatProperties, LenProperties
<1>2. DOMAIN (s \o t) = 1..(Len(s) + Len(t)) /\ DOMAIN s = 1..Len(s) /\ DOMAIN t = 1..Len(t)
    BY <1>1, LenProperties
<1>3. ASSUME NEW x \in Elements(s \o t) PROVE x \in Elements(s) \cup Elements(t)
    <2>1. PICK i \in 1..(Len(s) + Len(t)) : x = (s \o t)[i]
        BY <1>2, <1>3 DEF Elements
    <2>2. CASE i <= Len(s)
        BY <1>1, <1>2, <2>1, <2>2 DEF Elements
    <2>3. CASE ~(i <= Len(s))
        <3>1. i - Len(s) \in 1..Len(t) /\ x = t[i - Len(s)]
            BY <1>1, <2>1, <2>3
        <3> QED
            BY <1>2, <3>1 DEF Elements
    <2> QED
        BY <2>2, <2>3
<1>4. ASSUME NEW x \in Elements(s) PROVE x \in Elements(s \o t)
    <2>1. PICK i \in 1..Len(s) : x = s[i]
        BY <1>2, <1>4 DEF Elements
    <2>2. i \in 1..(Len(s) + Len(t)) /\ x = (s \o t)[i]
        BY <1>1, <2>1
    <2> QED
        BY <1>2, <2>2 DEF Elements
<1>5. ASSUME NEW x \in Elements(t) PROVE x \in Elements(s \o t)
    <2>1. PICK i \in 1..Len(t) : x = t[i]
        BY <1>2, <1>5 DEF Elements
    <2>2. i + Len(s) \in 1..(Len(s) + Len(t)) /\ x = (s \o t)[i + Len(s)]
        BY <1>1, <2>1
    <2> QED
        BY <1>2, <2>2 DEF Elements
<1> QED
    BY <1>1, <1>3, <1>4, <1>5

LEMMA TailElements ==
    ASSUME NEW S, NEW s \in Seq(S), s # <<>>
    PROVE  /\ Head(s) \in S /\ Tail(s) \in Seq(S)
           /\ Elements(s) = Elements(Tail(s)) \cup {Head(s)}
<1>1. /\ Head(s) \in S /\ Tail(s) \in Seq(S) /\ Len(Tail(s)) = Len(s) - 1
      /\ \A i \in 1..Len(Tail(s)) : Tail(s)[i] = s[i + 1]
      /\ Len(s) \in Nat \ {0} /\ Head(s) = s[1]
    BY HeadTailProperties, EmptySeq
<1>2. DOMAIN s = 1..Len(s) /\ DOMAIN Tail(s) = 1..(Len(s) - 1)
    BY <1>1, LenProperties
<1>3. ASSUME NEW x \in Elements(s) PROVE x \in Elements(Tail(s)) \cup {Head(s)}
    <2>1. PICK i \in 1..Len(s) : x = s[i]
        BY <1>2, <1>3 DEF Elements
    <2>2. CASE i = 1
        BY <1>1, <2>1, <2>2
    <2>3. CASE i # 1
        <3>1. i - 1 \in 1..(Len(s) - 1) /\ x = Tail(s)[i - 1]
            BY <1>1, <2>1, <2>3
        <3> QED
            BY <1>2, <3>1 DEF Elements
    <2> QED
        BY <2>2, <2>3
<1>4. ASSUME NEW x \in Elements(Tail(s)) PROVE x \in Elements(s)
    <2>1. PICK i \in 1..(Len(s) - 1) : x = Tail(s)[i]
        BY <1>2, <1>4 DEF Elements
    <2>2. i + 1 \in 1..Len(s) /\ x = s[i + 1]
        BY <1>1, <2>1
    <2> QED
        BY <1>2, <2>2 DEF Elements
<1>5. Head(s) \in Elements(s)
    <2>1. 1 \in 1..Len(s)
        BY <1>1
    <2> QED
        BY <1>1, <1>2, <2>1 DEF Elements
<1> QED
    BY <1>1, <1>3, <1>4, <1>5

(* Taking a request back leaves only what was queued before.               *)
LEMMA WithoutElements ==
    ASSUME NEW S, NEW q \in Seq(S), NEW r
    PROVE  Without(q, r) \in Seq(S) /\ Elements(Without(q, r)) \subseteq Elements(q)
<1>1. CASE ~\E i \in DOMAIN q : q[i] = r
    BY <1>1 DEF Without
<1>2. CASE \E i \in DOMAIN q : q[i] = r
    <2>1. PICK i \in DOMAIN q : Without(q, r) = SubSeq(q, 1, i - 1) \o SubSeq(q, i + 1, Len(q))
        BY <1>2 DEF Without
    <2>2. DOMAIN q = 1..Len(q) /\ Len(q) \in Nat /\ i \in 1..Len(q)
        BY LenProperties
    <2> DEFINE T == Elements(q)
    <2>3. \A j \in 1..Len(q) : q[j] \in S /\ q[j] \in T
        BY <2>2, ElementOfSeq DEF Elements
    <2> HIDE DEF T
    <2>4. \A j \in 1..(i - 1) : q[j] \in S /\ q[j] \in T
        BY <2>2, <2>3
    <2>5. \A j \in (i + 1)..Len(q) : q[j] \in S /\ q[j] \in T
        BY <2>2, <2>3
    <2>6. i - 1 \in Int /\ i + 1 \in Int /\ Len(q) \in Int /\ 1 \in Int
        BY <2>2
    <2>7. SubSeq(q, 1, i - 1) \in Seq(S) /\ SubSeq(q, 1, i - 1) \in Seq(T)
        BY <2>4, <2>6, SubSeqProperties
    <2>8. SubSeq(q, i + 1, Len(q)) \in Seq(S) /\ SubSeq(q, i + 1, Len(q)) \in Seq(T)
        BY <2>5, <2>6, SubSeqProperties
    <2>9. Without(q, r) \in Seq(S) /\ Without(q, r) \in Seq(T)
        BY <2>1, <2>7, <2>8, ConcatProperties
    <2>10. Elements(Without(q, r)) \subseteq T
        BY <2>9, LenProperties, ElementOfSeq DEF Elements
    <2> QED
        BY <2>9, <2>10 DEF T
<1> QED
    BY <1>1, <1>2

-----------------------------------------------------------------------------
(* What each handler of the plugin does to its captures.                    *)

Known(b) == b \in Bridge /\ (b.pending # None /\ b.pending.requested => b.pending.prior # None)

(* The record after a handler keeps what the handler does not touch.       *)
Same(b, c) == c.loaded = b.loaded /\ c.registered = b.registered

LEMMA BridgeFields ==
    ASSUME NEW b \in Bridge
    PROVE  /\ b = [loaded |-> b.loaded, registered |-> b.registered, current |-> b.current,
                   pending |-> b.pending, active |-> b.active, barrier |-> b.barrier]
           /\ b.loaded \in BOOLEAN /\ b.registered \in BOOLEAN /\ b.current \in Modes \cup {None}
           /\ b.pending \in Pending \cup {None} /\ b.active \in Active \cup {None}
           /\ b.barrier \in {"none", "unobserved", "observed"}
BY DEF Bridge

LEMMA SlotFields ==
    ASSUME NEW b \in Bridge
    PROVE  /\ b.pending # None => /\ b.pending.lease \in Leases
                                  /\ b.pending.prior \in Modes \cup {None}
                                  /\ b.pending.requested \in BOOLEAN
           /\ b.active # None => /\ b.active.lease \in Leases /\ b.active.prior \in Modes
                                 /\ b.active.ticks \in 1..LeaseTicks
BY BridgeFields DEF Pending, Active

(* cancel_capture_for_restore *)
LEMMA CancelledKnown ==
    ASSUME NEW b, Known(b), NEW L
    PROVE  LET c == Cancelled(b, L) IN
           /\ Known(c) /\ Same(b, c) /\ c.current = b.current
           /\ c.pending = IF Owns(b.pending, L) THEN None ELSE b.pending
           /\ c.active = IF Owns(b.active, L) THEN None ELSE b.active
           /\ c.barrier = IF Owns(b.active, L) /\ b.current = Locked /\ b.active.prior # Locked
                          THEN "observed"
                          ELSE IF Owns(b.pending, L) /\ b.pending.requested THEN "unobserved"
                          ELSE b.barrier
           /\ RestoreOps(b, L) \in Seq(Modes)
<1> DEFINE c == Cancelled(b, L)
<1>1. b \in Bridge
    BY DEF Known
<1>2. /\ c.loaded = b.loaded /\ c.registered = b.registered /\ c.current = b.current
      /\ c.pending = IF Owns(b.pending, L) THEN None ELSE b.pending
      /\ c.active = IF Owns(b.active, L) THEN None ELSE b.active
      /\ c.barrier = IF Owns(b.active, L) /\ b.current = Locked /\ b.active.prior # Locked
                     THEN "observed"
                     ELSE IF Owns(b.pending, L) /\ b.pending.requested THEN "unobserved"
                     ELSE b.barrier
    BY <1>1 DEF Cancelled, Bridge
<1>3. c \in Bridge
    BY <1>1 DEF Cancelled, Bridge
<1>4. Known(c)
    BY <1>2, <1>3 DEF Known
<1>5. RestoreOps(b, L) \in Seq(Modes)
    <2>1. Owns(b.pending, L) /\ b.pending.requested => b.pending.prior \in Modes
        BY <1>1, SlotFields DEF Known, Owns
    <2>2. Owns(b.active, L) => b.active.prior \in Modes
        BY <1>1, SlotFields DEF Owns
    <2>3. /\ (IF Owns(b.pending, L) /\ b.pending.requested THEN <<b.pending.prior>> ELSE <<>>) \in Seq(Modes)
          /\ (IF Owns(b.active, L) /\ b.current = Locked THEN <<b.active.prior>> ELSE <<>>) \in Seq(Modes)
        BY <2>1, <2>2
    <2> QED
        BY <2>3, ConcatProperties DEF RestoreOps
<1> QED
    BY <1>2, <1>4, <1>5 DEF Same

LEMMA LockedRequest == Locked \in Modes /\ <<Locked>> \in Seq(Modes) /\ <<>> \in Seq(Modes)
<1>1. Locked \in Modes
    BY DEF Modes
<1> QED
    BY <1>1

LEMMA CapturesActive ==
    ASSUME NEW l \in Leases, NEW m \in Modes
    PROVE  /\ Captures(l, m) \in Active /\ Captures(l, m) # None
           /\ Captures(l, m).lease = l /\ Captures(l, m).prior = m
<1>1. LeaseTicks \in 1..LeaseTicks
    BY BridgeAssumption
<1>2. Captures(l, m) \in Active /\ Captures(l, m).lease = l /\ Captures(l, m).prior = m
    BY <1>1 DEF Captures, Active
<1> QED
    BY <1>2, SlotAssumption

(* emit: the one event, if the instance has registered.                    *)
LEMMA EmittedEvents ==
    ASSUME NEW b, NEW kind \in {"CaptureReady", "CaptureLost"}, NEW l \in Leases
    PROVE  /\ Emitted(b, kind, l) \in Seq(Event)
           /\ Elements(Emitted(b, kind, l)) \subseteq {[kind |-> kind, lease |-> l]}
           /\ b.registered => [kind |-> kind, lease |-> l] \in Elements(Emitted(b, kind, l))
<1> DEFINE e == [kind |-> kind, lease |-> l]
<1>1. e \in Event
    BY DEF Event
<1> HIDE DEF e
<1>2. CASE b.registered
    <2>1. Emitted(b, kind, l) = <<e>>
        BY <1>2 DEF Emitted, e
    <2>2. <<e>> \in Seq(Event) /\ Elements(<<e>>) = {e}
        BY <1>1 DEF Elements
    <2> QED
        BY <2>1, <2>2 DEF e
<1>3. CASE ~b.registered
    <2>1. Emitted(b, kind, l) = <<>>
        BY <1>3 DEF Emitted
    <2> QED
        BY <1>3, <2>1 DEF Elements
<1> QED
    BY <1>2, <1>3

LEMMA ReadyEmitted ==
    ASSUME NEW b, NEW l \in Leases
    PROVE  /\ Emitted(b, "CaptureReady", l) \in Seq(Event)
           /\ Elements(Emitted(b, "CaptureReady", l)) \subseteq {Ready(l)}
BY EmittedEvents DEF Ready

(* begin_capture: the lease becomes active or pending.                     *)
LEMMA BeganKnown ==
    ASSUME NEW b, Known(b), NEW l \in Leases
    PROVE  LET c == Began(b, l) IN
           /\ Known(c) /\ Same(b, c) /\ c.current = b.current /\ c.barrier = b.barrier
           /\ Retried(b, l) => c = b
           /\ ~Retried(b, l) /\ AlreadyLocked(b)
                 => c.pending = b.pending /\ c.active = Captures(l, Locked)
           /\ ~Retried(b, l) /\ ~AlreadyLocked(b)
                 => /\ c.active = b.active
                    /\ c.pending = [lease |-> l, prior |-> b.current, requested |-> CanRequest(b)]
           /\ BeganOps(b, l) \in Seq(Modes) /\ BeganEvents(b, l) \in Seq(Event)
           /\ Elements(BeganEvents(b, l)) \subseteq {Ready(l)}
           /\ BeganEvents(b, l) # <<>> => Owns(c.active, {l})
<1> DEFINE c == Began(b, l)
<1>1. b \in Bridge
    BY DEF Known
<1>2. Captures(l, Locked) \in Active /\ Captures(l, Locked).lease = l /\ Captures(l, Locked) # None
    BY CapturesActive DEF Modes
<1>3. CASE Retried(b, l)
    <2>1. c = b /\ BeganOps(b, l) = <<>>
        BY <1>3 DEF Began, BeganOps
    <2>2. BeganEvents(b, l) = IF Owns(b.active, {l}) THEN Emitted(b, "CaptureReady", l) ELSE <<>>
        BY <1>3 DEF BeganEvents
    <2>3. /\ BeganEvents(b, l) \in Seq(Event) /\ Elements(BeganEvents(b, l)) \subseteq {Ready(l)}
          /\ BeganEvents(b, l) # <<>> => Owns(b.active, {l})
        <3>1. CASE Owns(b.active, {l})
            BY <2>2, <3>1, ReadyEmitted
        <3>2. CASE ~Owns(b.active, {l})
            BY <2>2, <3>2 DEF Elements
        <3> QED
            BY <3>1, <3>2
    <2> QED
        BY <1>3, <2>1, <2>3, LockedRequest DEF Same
<1>4. CASE ~Retried(b, l) /\ AlreadyLocked(b)
    <2>1. c = [b EXCEPT !.active = Captures(l, Locked)]
        BY <1>4 DEF Began
    <2>2. c \in Bridge
        BY <1>1, <1>2, <2>1 DEF Bridge
    <2>3. /\ c.loaded = b.loaded /\ c.registered = b.registered /\ c.current = b.current
          /\ c.barrier = b.barrier /\ c.pending = b.pending /\ c.active = Captures(l, Locked)
        BY <1>1, <2>1 DEF Bridge
    <2>4. BeganOps(b, l) = <<>>
        BY <1>4 DEF BeganOps, AlreadyLocked
    <2>5. BeganEvents(b, l) = Emitted(b, "CaptureReady", l)
        BY <1>4 DEF BeganEvents
    <2>6. BeganEvents(b, l) \in Seq(Event) /\ Elements(BeganEvents(b, l)) \subseteq {Ready(l)}
        BY <2>5, ReadyEmitted
    <2>7. Known(c) /\ Same(b, c) /\ Owns(c.active, {l})
        BY <1>2, <2>2, <2>3 DEF Known, Same, Owns
    <2> QED
        BY <1>4, <2>3, <2>4, <2>6, <2>7, LockedRequest
<1>5. CASE ~Retried(b, l) /\ ~AlreadyLocked(b)
    <2> DEFINE p == [lease |-> l, prior |-> b.current, requested |-> CanRequest(b)]
    <2>1. c = [b EXCEPT !.pending = p]
        BY <1>5 DEF Began
    <2>2. p \in Pending /\ p.requested = CanRequest(b) /\ p.prior = b.current
        BY <1>1, BridgeFields DEF Pending, CanRequest
    <2>3. c \in Bridge
        BY <1>1, <2>1, <2>2 DEF Bridge
    <2>4. /\ c.loaded = b.loaded /\ c.registered = b.registered /\ c.current = b.current
          /\ c.barrier = b.barrier /\ c.pending = p /\ c.active = b.active
        BY <1>1, <2>1 DEF Bridge
    <2>5. Known(c)
        BY <2>2, <2>3, <2>4 DEF Known, CanRequest
    <2>6. BeganOps(b, l) \in Seq(Modes)
        BY LockedRequest DEF BeganOps
    <2>7. BeganEvents(b, l) = <<>>
        BY <1>5 DEF BeganEvents, Retried
    <2> QED
        BY <1>5, <2>4, <2>5, <2>6, <2>7 DEF Same, Elements
<1> QED
    BY <1>3, <1>4, <1>5

(* on_mode_update: swallowed, or a pending capture becomes active, or a    *)
(* mode other than Locked ends what is active and lets what is pending be  *)
(* requested.                                                              *)
LEMMA ModeSeenKnown ==
    ASSUME NEW b, Known(b), NEW m \in Modes
    PROVE  LET c == ModeSeen(b, m) IN
           /\ Known(c) /\ Same(b, c) /\ c.current = m
           /\ c.barrier = Observed(b, m).barrier
           /\ Swallowed(b, m) => c.pending = b.pending /\ c.active = b.active
           /\ ~Swallowed(b, m) /\ Activates(b, m)
                 => /\ c.pending = None /\ c.active # None
                    /\ c.active.lease = b.pending.lease
                    /\ b.pending.prior # None => c.active.prior = b.pending.prior
           /\ ~Swallowed(b, m) /\ ~Activates(b, m) /\ m = Locked
                 => c.pending = b.pending /\ c.active = b.active
           /\ ~Swallowed(b, m) /\ m # Locked
                 => /\ c.active = None
                    /\ b.pending = None <=> c.pending = None
                    /\ b.pending # None => /\ c.pending.lease = b.pending.lease
                                           /\ c.pending.prior = m /\ c.pending.requested
<1> DEFINE c == ModeSeen(b, m)  o == Observed(b, m)
<1>1. b \in Bridge
    BY DEF Known
<1>2. m # None
    BY BridgeAssumption
<1>3. /\ o \in Bridge /\ o.loaded = b.loaded /\ o.registered = b.registered /\ o.current = m
      /\ o.pending = b.pending /\ o.active = b.active
    BY <1>1 DEF Observed, Bridge
<1> HIDE DEF o
<1>4. CASE Swallowed(b, m) \/ (~Activates(b, m) /\ m = Locked)
    <2>1. c = o
        BY <1>4 DEF ModeSeen, o
    <2> QED
        BY <1>3, <1>4, <2>1 DEF Known, Same, o
<1>5. CASE ~Swallowed(b, m) /\ Activates(b, m)
    <2> DEFINE prior == IF b.pending.prior = None THEN Locked ELSE b.pending.prior
               a == Captures(b.pending.lease, prior)
    <2>1. c = [o EXCEPT !.pending = None, !.active = a]
        BY <1>5 DEF ModeSeen, o
    <2>2. b.pending # None /\ b.pending.lease \in Leases /\ prior \in Modes
        BY <1>1, <1>5, SlotFields DEF Activates, Modes
    <2>3. a \in Active /\ a.lease = b.pending.lease /\ a # None /\ a.prior = prior
        BY <2>2, CapturesActive
    <2> HIDE DEF a
    <2>4. c \in Bridge
        BY <1>3, <2>1, <2>3 DEF Bridge
    <2>5. /\ c.loaded = b.loaded /\ c.registered = b.registered /\ c.current = m
          /\ c.barrier = o.barrier /\ c.pending = None /\ c.active = a
        BY <1>3, <2>1 DEF Bridge
    <2> QED
        BY <1>5, <2>2, <2>3, <2>4, <2>5 DEF Known, Same, Activates, o
<1>6. CASE ~Swallowed(b, m) /\ m # Locked
    <2> DEFINE p == IF o.pending = None THEN None
                    ELSE [o.pending EXCEPT !.prior = m, !.requested = TRUE]
    <2>1. c = [o EXCEPT !.pending = p, !.active = None]
        BY <1>6 DEF ModeSeen, Activates, o
    <2>2. /\ p \in Pending \cup {None} /\ (p = None <=> b.pending = None)
          /\ b.pending # None => p.lease = b.pending.lease /\ p.prior = m /\ p.requested
        <3>1. CASE b.pending = None
            BY <1>3, <3>1
        <3>2. CASE b.pending # None
            <4>1. b.pending \in Pending
                BY <1>1, <3>2, BridgeFields
            <4>2. p \in Pending /\ p.lease = b.pending.lease /\ p.prior = m /\ p.requested
                BY <1>3, <3>2, <4>1 DEF Pending
            <4> QED
                BY <3>2, <4>2, SlotAssumption
        <3> QED
            BY <3>1, <3>2
    <2> HIDE DEF p, c
    <2>3. c \in Bridge
        BY <1>3, <2>1, <2>2 DEF Bridge
    <2>4. /\ c.loaded = b.loaded /\ c.registered = b.registered /\ c.current = m
          /\ c.barrier = o.barrier /\ c.pending = p /\ c.active = None
        BY <1>3, <2>1 DEF Bridge
    <2> QED
        BY <1>2, <1>6, <2>2, <2>3, <2>4 DEF Known, Same, Activates, o, c
<1> QED
    BY <1>4, <1>5, <1>6

(* ... and what it says: the capture is ready, or lost.                    *)
LEMMA ModeSeenSays ==
    ASSUME NEW b, Known(b), NEW m \in Modes
    PROVE  /\ ModeSeenOps(b, m) \in Seq(Modes) /\ ModeSeenEvents(b, m) \in Seq(Event)
           /\ ~Swallowed(b, m) /\ Activates(b, m)
                 => Elements(ModeSeenEvents(b, m)) \subseteq {Ready(b.pending.lease)}
           /\ ~(~Swallowed(b, m) /\ Activates(b, m))
                 => \A l \in Leases : Ready(l) \notin Elements(ModeSeenEvents(b, m))
           /\ ~Swallowed(b, m) /\ Dismisses(b, m) /\ b.registered
                 => Lost(b.active.lease) \in Elements(ModeSeenEvents(b, m))
<1>1. b \in Bridge
    BY DEF Known
<1>2. ModeSeenOps(b, m) \in Seq(Modes)
    BY LockedRequest DEF ModeSeenOps
<1>3. \A l, k \in Leases : Ready(l) # Lost(k)
    BY DEF Ready, Lost
<1>4. CASE Swallowed(b, m) \/ (~Activates(b, m) /\ ~Dismisses(b, m))
    <2>1. ModeSeenEvents(b, m) = <<>>
        BY <1>4 DEF ModeSeenEvents
    <2> QED
        BY <1>2, <1>4, <2>1 DEF Elements
<1>5. CASE ~Swallowed(b, m) /\ Activates(b, m)
    <2>1. b.pending.lease \in Leases /\ ~Dismisses(b, m)
        BY <1>1, <1>5, SlotFields DEF Activates, Dismisses
    <2>2. ModeSeenEvents(b, m) = Emitted(b, "CaptureReady", b.pending.lease)
        BY <1>5 DEF ModeSeenEvents
    <2>3. /\ ModeSeenEvents(b, m) \in Seq(Event)
          /\ Elements(ModeSeenEvents(b, m)) \subseteq {Ready(b.pending.lease)}
        BY <2>1, <2>2, ReadyEmitted
    <2> QED
        BY <1>2, <1>5, <2>1, <2>3
<1>6. CASE ~Swallowed(b, m) /\ ~Activates(b, m) /\ Dismisses(b, m)
    <2>1. b.active.lease \in Leases
        BY <1>1, <1>6, SlotFields DEF Dismisses
    <2>2. ModeSeenEvents(b, m) = Emitted(b, "CaptureLost", b.active.lease)
        BY <1>6 DEF ModeSeenEvents
    <2>3. /\ ModeSeenEvents(b, m) \in Seq(Event)
          /\ Elements(ModeSeenEvents(b, m)) \subseteq {Lost(b.active.lease)}
          /\ b.registered => Lost(b.active.lease) \in Elements(ModeSeenEvents(b, m))
        BY <2>1, <2>2, EmittedEvents DEF Lost
    <2> QED
        BY <1>2, <1>3, <1>6, <2>1, <2>3
<1> QED
    BY <1>4, <1>5, <1>6

-----------------------------------------------------------------------------
(* The steps of the plugin, which leave the adapter as it is but for the   *)
(* request on the wire.                                                     *)

Holds(b, l) == Owns(b.pending, {l}) \/ Owns(b.active, {l})

(* Only a lease whose request was sent is taken up or reported ready, and  *)
(* a lease is given up only with a word to the adapter, or because its     *)
(* call is over.                                                           *)
PluginMoves ==
    /\ UNCHANGED <<table, call, waiter, queue, broker, link, loss>>
    /\ wire' \in {wire, None}
    /\ late' \subseteq late \cup ({wire} \ {None})
    /\ bridge \in Bridge /\ Known(bridge') /\ BridgeTypeOK' /\ left' \in Budget
    /\ overtaken' \in BOOLEAN /\ (overtaken => overtaken')
    /\ bridge'.registered => bridge.registered
    /\ \A l \in Leases :
          /\ Holds(bridge', l) => Holds(bridge, l) \/ SentTo(Req("Begin", l))
          /\ Ready(l) \in Elements(events') =>
                \/ Ready(l) \in Elements(events)
                \/ (Holds(bridge, l) \/ SentTo(Req("Begin", l)))
                      /\ (~overtaken' => Owns(bridge'.active, {l}))
          /\ Lost(l) \in Elements(events) => Lost(l) \in Elements(events')
          /\ Owns(bridge.active, {l}) /\ ~overtaken' /\ bridge'.registered =>
                \/ Owns(bridge'.active, {l})
                \/ Lost(l) \in Elements(events')
                \/ SentTo(Req("End", l))
    /\ ~overtaken' => bridge'.pending = None \/ bridge'.active = None

LEMMA PluginInv ==
    ASSUME CaptureInv, PluginMoves
    PROVE  CaptureInv'
<1>1. TypeOK'
    <2>1. wire' \in Request \cup {None} /\ late' \subseteq Request
        BY DEF CaptureInv, TypeOK, PluginMoves
    <2> QED
        BY <2>1 DEF CaptureInv, TypeOK, PluginMoves
<1>2. PriorKnown'
    BY DEF PluginMoves, Known, PriorKnown
<1>3. ASSUME NEW l \in Leases PROVE LeaseOk(l)'
    <2>1. LeaseOk(l)
        BY DEF CaptureInv
    <2>2. /\ Requests' \subseteq Requests \cup {None} /\ Req("Begin", l) # None /\ Req("End", l) # None
          /\ SentTo(Req("Begin", l))' => SentTo(Req("Begin", l))
        BY RequestAssumption DEF Requests, SentTo, PluginMoves, Req, Request
    <2>3. Unsent(l)' <=> Unsent(l)
        BY DEF Unsent, Unasked, PluginMoves
    <2>4. Unsent(l) => ~SentTo(Req("Begin", l)) /\ ~Holds(bridge, l) /\ Ready(l) \notin Elements(events)
        BY <2>1 DEF LeaseOk, Holds
    <2>5. Unsent(l) => ~SentTo(Req("Begin", l))' /\ ~Holds(bridge', l) /\ Ready(l) \notin Elements(events')
        BY <2>2, <2>4 DEF PluginMoves
    <2>6. call' = call /\ waiter' = waiter /\ table' = table
        BY DEF PluginMoves
    <2>7. /\ Req("Begin", l) \in Requests' => ~Unasked(l)'
          /\ Req("End", l) \in Requests' => call'[l] \in {"failed", "ended"}
        BY <2>1, <2>2, <2>6 DEF LeaseOk, Unasked
    <2> QED
        BY <2>1, <2>3, <2>5, <2>6, <2>7 DEF LeaseOk, Holds
<1>4. TableOk' /\ OneCapture'
    BY DEF CaptureInv, TableOk, OneCapture, PluginMoves
<1>5. Unlinked'
    BY DEF CaptureInv, Unlinked, PluginMoves, Unsent, Unasked
<1>6. Reported'
    <2> SUFFICES ASSUME broker' = "up", link' = "registered", bridge'.registered, ~overtaken',
                        NEW l \in Leases, Confirmed(l)'
                 PROVE  HeldOrLost(l)'
        BY DEF Reported
    <2>1. /\ broker = "up" /\ link = "registered" /\ bridge.registered /\ ~overtaken
          /\ UNCHANGED <<table, waiter, call, loss>> /\ table.lease = l
        BY DEF PluginMoves, Confirmed
    <2>2. ~SentTo(Req("End", l))
        BY <2>1 DEF CaptureInv, LeaseOk, Requests, SentTo
    <2>3. CASE Confirmed(l)
        <3>1. HeldOrLost(l)
            BY <2>1, <2>3 DEF CaptureInv, Reported
        <3> QED
            BY <2>1, <2>2, <3>1 DEF HeldOrLost, PluginMoves
    <2>4. CASE ~Confirmed(l)
        <3>1. Ready(l) \in Elements(events') /\ Ready(l) \notin Elements(events)
            BY <2>1, <2>4 DEF Confirmed
        <3>2. Owns(bridge'.active, {l})
            BY <3>1 DEF PluginMoves
        <3> QED
            BY <3>2 DEF HeldOrLost
    <2> QED
        BY <2>3, <2>4
<1> QED
    BY <1>1, <1>2, <1>3, <1>4, <1>5, <1>6 DEF CaptureInv

LEMMA NowKnown ==
    ASSUME CaptureInv
    PROVE  Known(bridge) /\ bridge \in Bridge /\ BridgeTypeOK
BY DEF CaptureInv, TypeOK, BridgeTypeOK, PriorKnown, Known

(* switch_mode and the user's keys reach the plugin as updates only.       *)
LEMMA HostInv ==
    ASSUME CaptureInv, UNCHANGED <<bridge, events, adapterVars, overtaken>>,
           BridgeTypeOK', left' \in Budget
    PROVE  CaptureInv'
<1>1. PluginMoves
    BY NowKnown DEF CaptureInv, OneCapture, TypeOK, PluginMoves, adapterVars, Holds
<1> QED
    BY <1>1, PluginInv

LEMMA SwitchInv ==
    ASSUME CaptureInv, Switch
    PROVE  CaptureInv'
<1>1. PICK m \in Modes : UserSwitches(m)
    BY DEF Switch
<1>2. BridgeTypeOK'
    BY <1>1, NowKnown DEF UserSwitches, BridgeTypeOK
<1>3. left' \in Budget
    BY DEF Switch, CaptureInv, TypeOK, Budget
<1> QED
    BY <1>1, <1>2, <1>3, HostInv DEF UserSwitches, Switch

LEMMA HostAppliesInv ==
    ASSUME CaptureInv, HostApplies, UNCHANGED <<adapterVars, overtaken, left>>
    PROVE  CaptureInv'
<1>1. BridgeTypeOK'
    <2>1. Head(ops) \in Modes /\ Tail(ops) \in Seq(Modes)
        BY NowKnown DEF HostApplies, BridgeTypeOK
    <2> QED
        BY <2>1, NowKnown DEF HostApplies, BridgeTypeOK
<1>2. left' \in Budget
    BY DEF CaptureInv, TypeOK
<1> QED
    BY <1>1, <1>2, HostInv DEF HostApplies

LEMMA SeesModeInv ==
    ASSUME CaptureInv, BridgeSeesMode, UNCHANGED <<adapterVars, overtaken, left>>
    PROVE  CaptureInv'
<1>1. PICK m \in Modes : m = Head(updates) /\ Tail(updates) \in Seq(Modes)
    BY NowKnown DEF BridgeSeesMode, BridgeTypeOK
<1>2. /\ bridge' = ModeSeen(bridge, m) /\ ops' = ops \o ModeSeenOps(bridge, m)
      /\ events' = events \o ModeSeenEvents(bridge, m) /\ updates' = Tail(updates)
      /\ mode' = mode /\ userMode' = userMode
    BY <1>1 DEF BridgeSeesMode
<1>3. Known(bridge') /\ bridge'.registered = bridge.registered
    BY <1>2, NowKnown, ModeSeenKnown DEF Same
<1>4. /\ ModeSeenOps(bridge, m) \in Seq(Modes) /\ ModeSeenEvents(bridge, m) \in Seq(Event)
      /\ ops \in Seq(Modes) /\ events \in Seq(Event)
    BY NowKnown, ModeSeenSays DEF BridgeTypeOK
<1>5. /\ events' \in Seq(Event) /\ Elements(events') = Elements(events) \cup Elements(ModeSeenEvents(bridge, m))
      /\ ops' \in Seq(Modes)
    BY <1>2, <1>4, ConcatElements
<1>6. BridgeTypeOK'
    BY <1>1, <1>2, <1>3, <1>5, NowKnown DEF BridgeTypeOK, Known
<1>7. ~overtaken => bridge.pending = None \/ bridge.active = None
    BY DEF CaptureInv, OneCapture
<1>8. ASSUME NEW l \in Leases
      PROVE  /\ Holds(bridge', l) => Holds(bridge, l)
             /\ Ready(l) \in Elements(ModeSeenEvents(bridge, m))
                   => Holds(bridge, l) /\ Owns(bridge'.active, {l})
             /\ Owns(bridge.active, {l}) /\ ~overtaken /\ bridge.registered
                   => Owns(bridge'.active, {l}) \/ Lost(l) \in Elements(ModeSeenEvents(bridge, m))
    <2>1. CASE Swallowed(bridge, m) \/ (~Activates(bridge, m) /\ m = Locked)
        <3>1. bridge'.pending = bridge.pending /\ bridge'.active = bridge.active
            BY <1>2, <2>1, NowKnown, ModeSeenKnown
        <3>2. Ready(l) \notin Elements(ModeSeenEvents(bridge, m))
            BY <2>1, NowKnown, ModeSeenSays
        <3> QED
            BY <3>1, <3>2 DEF Holds
    <2>2. CASE ~Swallowed(bridge, m) /\ Activates(bridge, m)
        <3>1. /\ bridge'.pending = None /\ bridge'.active # None
              /\ bridge'.active.lease = bridge.pending.lease
            BY <1>2, <2>2, NowKnown, ModeSeenKnown
        <3>2. Elements(ModeSeenEvents(bridge, m)) \subseteq {Ready(bridge.pending.lease)}
            BY <2>2, NowKnown, ModeSeenSays
        <3>3. bridge.pending # None /\ (Ready(l) = Ready(bridge.pending.lease) => l = bridge.pending.lease)
            BY <2>2 DEF Activates, Ready
        <3> QED
            BY <1>7, <3>1, <3>2, <3>3 DEF Holds, Owns
    <2>3. CASE ~Swallowed(bridge, m) /\ m # Locked
        <3>1. /\ bridge'.active = None /\ (bridge.pending = None <=> bridge'.pending = None)
              /\ bridge.pending # None => bridge'.pending.lease = bridge.pending.lease
            BY <1>2, <2>3, NowKnown, ModeSeenKnown
        <3>2. Ready(l) \notin Elements(ModeSeenEvents(bridge, m))
            BY <2>3, NowKnown, ModeSeenSays DEF Activates
        <3>3. bridge.active # None /\ bridge.registered
                 => Lost(bridge.active.lease) \in Elements(ModeSeenEvents(bridge, m))
            BY <2>3, NowKnown, ModeSeenSays DEF Dismisses
        <3> QED
            BY <3>1, <3>2, <3>3 DEF Holds, Owns
    <2> QED
        BY <2>1, <2>2, <2>3 DEF Activates
<1>9. bridge'.pending = None \/ bridge'.active = None \/ overtaken
    BY <1>2, <1>7, NowKnown, ModeSeenKnown DEF Activates
<1>10. PluginMoves
    BY <1>3, <1>5, <1>6, <1>8, <1>9, NowKnown DEF PluginMoves, adapterVars, CaptureInv, TypeOK
<1> QED
    BY <1>10, PluginInv

(* A handler that gives up the captures of the leases L: those of a call   *)
(* that is over, all of them with the registration, or with a word.        *)
LEMMA LetsGoInv ==
    ASSUME CaptureInv, NEW L, bridge' = Cancelled(bridge, L), BridgeTypeOK',
           UNCHANGED <<table, call, waiter, queue, broker, link, loss, overtaken, left>>,
           wire' \in {wire, None}, late' \subseteq late,
           Elements(events) \subseteq Elements(events'),
           \A l \in Leases : Ready(l) \in Elements(events') => Ready(l) \in Elements(events),
           \A l \in Leases : l \in L /\ Owns(bridge.active, {l}) /\ bridge.registered
                                => Lost(l) \in Elements(events') \/ SentTo(Req("End", l))
    PROVE  CaptureInv'
<1>1. /\ Known(bridge') /\ bridge'.registered = bridge.registered
      /\ bridge'.pending = IF Owns(bridge.pending, L) THEN None ELSE bridge.pending
      /\ bridge'.active = IF Owns(bridge.active, L) THEN None ELSE bridge.active
    BY NowKnown, CancelledKnown DEF Same
<1>2. ASSUME NEW l \in Leases
      PROVE  /\ Holds(bridge', l) => Holds(bridge, l)
             /\ Owns(bridge.active, {l}) => Owns(bridge'.active, {l}) \/ l \in L
    BY <1>1 DEF Holds, Owns
<1>3. ~overtaken => bridge'.pending = None \/ bridge'.active = None
    BY <1>1 DEF CaptureInv, OneCapture
<1>4. PluginMoves
    BY <1>1, <1>2, <1>3, NowKnown DEF PluginMoves, CaptureInv, TypeOK
<1> QED
    BY <1>4, PluginInv

LEMMA TicksInv ==
    ASSUME CaptureInv, BridgeTicks, UNCHANGED <<adapterVars, overtaken, left>>
    PROVE  CaptureInv'
<1>1. /\ bridge.active # None /\ bridge.active.lease \in Leases /\ bridge.active.ticks \in 1..LeaseTicks
      /\ bridge.active \in Active
    BY NowKnown, SlotFields, BridgeFields DEF BridgeTicks
<1>2. CASE Expires(bridge)
    <2>1. PICK l \in Leases : l = bridge.active.lease
        BY <1>1
    <2>2. /\ bridge' = Cancelled(bridge, {l}) /\ ops' = ops \o RestoreOps(bridge, {l})
          /\ events' = events \o Emitted(bridge, "CaptureLost", l)
          /\ UNCHANGED <<mode, updates, userMode>>
        BY <1>2, <2>1 DEF BridgeTicks
    <2>3. /\ Known(bridge') /\ RestoreOps(bridge, {l}) \in Seq(Modes)
        BY <2>2, NowKnown, CancelledKnown
    <2>4. /\ Emitted(bridge, "CaptureLost", l) \in Seq(Event)
          /\ Elements(Emitted(bridge, "CaptureLost", l)) \subseteq {Lost(l)}
          /\ bridge.registered => Lost(l) \in Elements(Emitted(bridge, "CaptureLost", l))
        BY EmittedEvents DEF Lost
    <2>5. ops \in Seq(Modes) /\ events \in Seq(Event)
        BY NowKnown DEF BridgeTypeOK
    <2>6. /\ events' \in Seq(Event) /\ ops' \in Seq(Modes)
          /\ Elements(events') = Elements(events) \cup Elements(Emitted(bridge, "CaptureLost", l))
        BY <2>2, <2>3, <2>4, <2>5, ConcatElements
    <2>7. BridgeTypeOK'
        BY <2>2, <2>3, <2>6, NowKnown DEF BridgeTypeOK, Known
    <2>8. \A k \in Leases : Ready(k) # Lost(l)
        BY DEF Ready, Lost
    <2>9. /\ Elements(events) \subseteq Elements(events')
          /\ \A k \in Leases : Ready(k) \in Elements(events') => Ready(k) \in Elements(events)
          /\ \A k \in Leases : k \in {l} /\ Owns(bridge.active, {k}) /\ bridge.registered
                                => Lost(k) \in Elements(events')
        BY <2>4, <2>6, <2>8
    <2> QED
        BY <2>2, <2>7, <2>9, LetsGoInv DEF adapterVars
<1>3. CASE ~Expires(bridge)
    <2>1. /\ bridge' = [bridge EXCEPT !.active.ticks = bridge.active.ticks - 1]
          /\ UNCHANGED <<ops, events, mode, updates, userMode>>
        BY <1>3 DEF BridgeTicks
    <2>2. bridge.active.ticks - 1 \in 1..LeaseTicks
        BY <1>1, <1>3, BridgeAssumption DEF Expires
    <2>3. PICK a \in Active : a = [bridge.active EXCEPT !.ticks = bridge.active.ticks - 1]
        BY <1>1, <2>2 DEF Active
    <2>4. a # None /\ a.lease = bridge.active.lease
        BY <1>1, <2>3, SlotAssumption DEF Active
    <2>5. bridge' = [bridge EXCEPT !.active = a]
        BY <2>1, <2>3, NowKnown, BridgeFields
    <2>6. /\ bridge' \in Bridge /\ bridge'.pending = bridge.pending /\ bridge'.active = a
          /\ bridge'.registered = bridge.registered
        BY <2>5, NowKnown DEF Bridge
    <2>7. Known(bridge') /\ BridgeTypeOK'
        BY <2>1, <2>6, NowKnown DEF BridgeTypeOK, Known
    <2>8. \A l \in Leases : Holds(bridge', l) => Holds(bridge, l)
        BY <1>1, <2>4, <2>6 DEF Holds, Owns
    <2>9. \A l \in Leases : Owns(bridge.active, {l}) => Owns(bridge'.active, {l})
        BY <1>1, <2>4, <2>6 DEF Holds, Owns
    <2>10. ~overtaken => bridge'.pending = None \/ bridge'.active = None
        BY <1>1, <2>6 DEF CaptureInv, OneCapture
    <2>11. PluginMoves
        BY <2>1, <2>6, <2>7, <2>8, <2>9, <2>10, NowKnown DEF PluginMoves, CaptureInv, TypeOK, adapterVars
    <2> QED
        BY <2>11, PluginInv
<1> QED
    BY <1>2, <1>3

(* An instance that is loaded or unloaded holds nothing and is not         *)
(* registered.                                                             *)
LEMMA FreshInv ==
    ASSUME CaptureInv, UNCHANGED <<adapterVars, overtaken>>, left' \in Budget, BridgeTypeOK',
           bridge'.pending = None, bridge'.active = None, ~bridge'.registered,
           Elements(events) \subseteq Elements(events'),
           \A l \in Leases : Ready(l) \in Elements(events') => Ready(l) \in Elements(events)
    PROVE  CaptureInv'
<1>1. Known(bridge')
    BY DEF Known, BridgeTypeOK
<1>2. \A l \in Leases : ~Holds(bridge', l)
    BY DEF Holds, Owns
<1>3. PluginMoves
    BY <1>1, <1>2, NowKnown DEF PluginMoves, CaptureInv, TypeOK, adapterVars
<1> QED
    BY <1>3, PluginInv

LEMMA LoadsInv ==
    ASSUME CaptureInv, BridgeLoads, UNCHANGED <<adapterVars, overtaken, left>>
    PROVE  CaptureInv'
<1>1. FreshBridge \in Bridge /\ bridge' = FreshBridge
    BY DEF BridgeLoads, FreshBridge, Bridge
<1>2. bridge'.pending = None /\ bridge'.active = None /\ ~bridge'.registered
    BY <1>1 DEF FreshBridge
<1>3. BridgeTypeOK'
    BY <1>1, NowKnown DEF BridgeLoads, BridgeTypeOK
<1>4. left' \in Budget /\ events' = events
    BY DEF CaptureInv, TypeOK, BridgeLoads
<1> QED
    BY <1>2, <1>3, <1>4, FreshInv

LEMMA FaultBudget ==
    ASSUME CaptureInv, NEW kind, Fault(kind)
    PROVE  left' \in Budget /\ left'.switches = left.switches
BY DEF CaptureInv, TypeOK, Fault, Budget

LEMMA ReloadInv ==
    ASSUME CaptureInv, Reload
    PROVE  CaptureInv'
<1>1. /\ bridge' = [FreshBridge EXCEPT !.loaded = FALSE] /\ updates' = <<>>
      /\ ops' = ops \o RestoreOps(bridge, Leases)
      /\ events' = events \o (IF bridge.active # None /\ bridge.current = Locked
                            THEN Emitted(bridge, "CaptureLost", bridge.active.lease)
                            ELSE <<>>)
      /\ UNCHANGED <<mode, userMode, adapterVars, overtaken>>
    BY DEF Reload, BridgeCloses
<1>2. /\ bridge' \in Bridge /\ bridge'.pending = None /\ bridge'.active = None /\ ~bridge'.registered
    BY <1>1 DEF FreshBridge, Bridge
<1>3. RestoreOps(bridge, Leases) \in Seq(Modes)
    BY NowKnown, CancelledKnown
<1>4. PICK E \in Seq(Event) :
         events' = events \o E /\ \A l \in Leases : Ready(l) \notin Elements(E)
    <2>1. CASE bridge.active # None /\ bridge.current = Locked
        <3>1. PICK k \in Leases : k = bridge.active.lease
            BY <2>1, NowKnown, SlotFields
        <3>2. events' = events \o Emitted(bridge, "CaptureLost", k)
            BY <1>1, <2>1, <3>1
        <3>3. /\ Emitted(bridge, "CaptureLost", k) \in Seq(Event)
              /\ Elements(Emitted(bridge, "CaptureLost", k)) \subseteq {Lost(k)}
            BY EmittedEvents DEF Lost
        <3>4. \A l \in Leases : Ready(l) # Lost(k)
            BY DEF Ready, Lost
        <3> QED
            BY <3>2, <3>3, <3>4
    <2>2. CASE ~(bridge.active # None /\ bridge.current = Locked)
        <3>1. events' = events \o <<>>
            BY <1>1, <2>2
        <3>2. <<>> \in Seq(Event) /\ Elements(<<>>) = {}
            BY DEF Elements
        <3> QED
            BY <3>1, <3>2
    <2> QED
        BY <2>1, <2>2
<1>5. ops \in Seq(Modes) /\ events \in Seq(Event)
    BY NowKnown DEF BridgeTypeOK
<1>6. /\ events' \in Seq(Event) /\ Elements(events') = Elements(events) \cup Elements(E)
      /\ ops' \in Seq(Modes)
    <2>1. events' \in Seq(Event) /\ Elements(events') = Elements(events) \cup Elements(E)
        BY <1>4, <1>5, ConcatElements
    <2>2. ops' \in Seq(Modes)
        BY <1>1, <1>3, <1>5, ConcatElements
    <2> QED
        BY <2>1, <2>2
<1>7. BridgeTypeOK'
    BY <1>1, <1>2, <1>6, NowKnown DEF BridgeTypeOK
<1>8. left' \in Budget
    BY FaultBudget DEF Reload
<1> QED
    BY <1>1, <1>2, <1>4, <1>6, <1>7, <1>8, FreshInv

(* on_request, of a request that was sent.                                 *)
LEMMA HandlesInv ==
    ASSUME CaptureInv, NEW r \in Request, SentTo(r), Handles(r),
           wire' \in {wire, None}, late' \subseteq late
    PROVE  CaptureInv'
<1>1. /\ bridge.registered
      /\ UNCHANGED <<mode, updates, userMode, table, call, waiter, queue, link, broker, loss, left>>
    BY DEF Handles
<1>2. PICK l \in Leases : l = r.lease
    BY DEF Request
<1>3. \A kind : r.kind = kind => r = Req(kind, l)
    BY <1>1, <1>2 DEF Request, Req
<1>4. ops \in Seq(Modes) /\ events \in Seq(Event)
    BY NowKnown DEF BridgeTypeOK
<1>5. CASE r.kind = "Begin"
    <2>1. /\ bridge' = Began(bridge, l) /\ ops' = ops \o BeganOps(bridge, l)
          /\ events' = events \o BeganEvents(bridge, l)
          /\ overtaken' = (overtaken \/ Overtakes(l))
        BY <1>2, <1>5 DEF Handles
    <2>2. /\ Known(bridge') /\ bridge'.registered = bridge.registered
          /\ BeganOps(bridge, l) \in Seq(Modes) /\ BeganEvents(bridge, l) \in Seq(Event)
          /\ Elements(BeganEvents(bridge, l)) \subseteq {Ready(l)}
          /\ BeganEvents(bridge, l) # <<>> => Owns(bridge'.active, {l})
        BY <2>1, NowKnown, BeganKnown DEF Same
    <2>3. /\ events' \in Seq(Event) /\ ops' \in Seq(Modes)
          /\ Elements(events') = Elements(events) \cup Elements(BeganEvents(bridge, l))
        BY <1>4, <2>1, <2>2, ConcatElements
    <2>4. BridgeTypeOK'
        BY <1>1, <2>2, <2>3, NowKnown DEF BridgeTypeOK, Known
    <2>5. SentTo(Req("Begin", l))
        BY <1>3, <1>5
    <2>6. \A k \in Leases : Ready(k) = Ready(l) => k = l
        BY DEF Ready
    <2>7. BeganEvents(bridge, l) = <<>> => Elements(BeganEvents(bridge, l)) = {}
        BY DEF Elements
    <2>8. ~overtaken' => \/ bridge' = bridge
                         \/ bridge.pending = None /\ bridge.active = None
        BY <2>1, NowKnown, BeganKnown DEF Overtakes
    <2>9. /\ overtaken \in BOOLEAN /\ left \in Budget
          /\ ~overtaken => bridge.pending = None \/ bridge.active = None
        BY DEF CaptureInv, TypeOK, OneCapture
    <2>10. overtaken' \in BOOLEAN /\ (overtaken => overtaken')
        BY <2>1, <2>9
    <2>11. bridge.pending = None /\ bridge.active = None
              => bridge'.pending = None \/ bridge'.active = None
        BY <2>1, NowKnown, BeganKnown DEF Retried
    <2>12. \A k \in Leases : Holds(bridge', k) => Holds(bridge, k) \/ k = l
        <3> SUFFICES ASSUME NEW k \in Leases, k # l, Holds(bridge', k) PROVE Holds(bridge, k)
            OBVIOUS
        <3>1. CASE Retried(bridge, l)
            BY <2>1, <3>1, NowKnown, BeganKnown
        <3>2. CASE ~Retried(bridge, l) /\ AlreadyLocked(bridge)
            <4>1. bridge'.pending = bridge.pending /\ bridge'.active = Captures(l, Locked)
                BY <2>1, <3>2, NowKnown, BeganKnown
            <4> QED
                BY <4>1, CapturesActive, LockedRequest DEF Holds, Owns
        <3>3. CASE ~Retried(bridge, l) /\ ~AlreadyLocked(bridge)
            <4>1. /\ bridge'.active = bridge.active
                  /\ bridge'.pending = [lease |-> l, prior |-> bridge.current, requested |-> CanRequest(bridge)]
                BY <2>1, <3>3, NowKnown, BeganKnown
            <4>2. bridge'.pending.lease = l
                BY <4>1
            <4> QED
                BY <4>1, <4>2 DEF Holds, Owns
        <3> QED
            BY <3>1, <3>2, <3>3
    <2>13. ASSUME NEW k \in Leases
           PROVE  /\ Holds(bridge', k) => Holds(bridge, k) \/ SentTo(Req("Begin", k))
                  /\ Ready(k) \in Elements(events') =>
                        \/ Ready(k) \in Elements(events)
                        \/ (Holds(bridge, k) \/ SentTo(Req("Begin", k)))
                              /\ (~overtaken' => Owns(bridge'.active, {k}))
                  /\ Lost(k) \in Elements(events) => Lost(k) \in Elements(events')
                  /\ Owns(bridge.active, {k}) /\ ~overtaken' => Owns(bridge'.active, {k})
        <3>1. Holds(bridge', k) => Holds(bridge, k) \/ SentTo(Req("Begin", k))
            BY <2>5, <2>12
        <3>2. Ready(k) \in Elements(events') /\ Ready(k) \notin Elements(events)
                 => k = l /\ Owns(bridge'.active, {k})
            BY <2>2, <2>3, <2>6, <2>7
        <3>3. Owns(bridge.active, {k}) /\ ~overtaken' => Owns(bridge'.active, {k})
            BY <2>8 DEF Owns
        <3> QED
            BY <2>3, <2>5, <3>1, <3>2, <3>3
    <2>14. ~overtaken' => bridge'.pending = None \/ bridge'.active = None
        BY <2>8, <2>9, <2>10, <2>11
    <2>15. PluginMoves
        BY <1>1, <2>2, <2>4, <2>9, <2>10, <2>13, <2>14, NowKnown DEF PluginMoves
    <2> QED
        BY <2>15, PluginInv
<1>6. CASE r.kind = "End"
    <2>1. /\ bridge' = Cancelled(bridge, {l}) /\ ops' = ops \o RestoreOps(bridge, {l})
          /\ UNCHANGED <<events, overtaken>>
        BY <1>2, <1>6 DEF Handles
    <2>2. Known(bridge') /\ RestoreOps(bridge, {l}) \in Seq(Modes)
        BY <2>1, NowKnown, CancelledKnown
    <2>3. BridgeTypeOK'
        BY <1>1, <1>4, <2>1, <2>2, ConcatElements, NowKnown DEF BridgeTypeOK, Known
    <2>4. \A k \in Leases : k \in {l} => SentTo(Req("End", k))
        BY <1>3, <1>6
    <2> QED
        BY <1>1, <2>1, <2>3, <2>4, LetsGoInv
<1>7. CASE r.kind = "Renew"
    <2>1. /\ bridge' = IF Owns(bridge.active, {l})
                       THEN [bridge EXCEPT !.active.ticks = LeaseTicks] ELSE bridge
          /\ UNCHANGED <<ops, events, overtaken>>
        BY <1>2, <1>7 DEF Handles
    <2>2. /\ bridge' \in Bridge /\ bridge'.pending = bridge.pending
          /\ bridge'.registered = bridge.registered
          /\ bridge'.active = None <=> bridge.active = None
          /\ bridge.active # None => bridge'.active.lease = bridge.active.lease
        <3>1. CASE ~Owns(bridge.active, {l})
            BY <2>1, <3>1, NowKnown
        <3>2. CASE Owns(bridge.active, {l})
            <4>1. bridge.active \in Active /\ LeaseTicks \in 1..LeaseTicks
                BY <3>2, NowKnown, BridgeFields, BridgeAssumption DEF Owns
            <4>2. PICK a \in Active : a = [bridge.active EXCEPT !.ticks = LeaseTicks]
                BY <4>1 DEF Active
            <4>3. a # None /\ a.lease = bridge.active.lease
                BY <4>1, <4>2, SlotAssumption DEF Active
            <4>4. bridge' = [bridge EXCEPT !.active = a]
                BY <2>1, <3>2, <4>2, NowKnown, BridgeFields
            <4>5. /\ bridge' \in Bridge /\ bridge'.pending = bridge.pending /\ bridge'.active = a
                  /\ bridge'.registered = bridge.registered
                BY <4>4, NowKnown DEF Bridge
            <4> QED
                BY <3>2, <4>3, <4>5 DEF Owns
        <3> QED
            BY <3>1, <3>2
    <2>3. Known(bridge') /\ BridgeTypeOK'
        BY <1>1, <2>1, <2>2, NowKnown DEF BridgeTypeOK, Known
    <2>4. \A k \in Leases : /\ Holds(bridge', k) => Holds(bridge, k)
                            /\ Owns(bridge.active, {k}) => Owns(bridge'.active, {k})
        BY <2>2 DEF Holds, Owns
    <2>5. ~overtaken => bridge'.pending = None \/ bridge'.active = None
        BY <2>2 DEF CaptureInv, OneCapture
    <2>6. PluginMoves
        BY <1>1, <2>1, <2>2, <2>3, <2>4, <2>5, NowKnown DEF PluginMoves, CaptureInv, TypeOK
    <2> QED
        BY <2>6, PluginInv
<1> QED
    BY <1>1, <1>5, <1>6, <1>7 DEF Request

LEMMA BridgeHandlesInv ==
    ASSUME CaptureInv, BridgeHandles \/ BridgeHandlesLate
    PROVE  CaptureInv'
<1>1. PICK r \in Request : SentTo(r) /\ Handles(r) /\ wire' \in {wire, None} /\ late' \subseteq late
    BY DEF BridgeHandles, BridgeHandlesLate, SentTo, CaptureInv, TypeOK
<1> QED
    BY <1>1, HandlesInv

(* subscribe lets go of every capture, and takes the registration away.    *)
LEMMA SubscribesInv ==
    ASSUME CaptureInv, BridgeSubscribes
    PROVE  CaptureInv'
<1> DEFINE c == Cancelled(bridge, Leases)
<1>1. /\ link = "subscribing" /\ link' = "subscribed" /\ wire' = None /\ late' = {}
      /\ bridge' = [c EXCEPT !.registered = FALSE]
      /\ ops' = ops \o RestoreOps(bridge, Leases)
      /\ UNCHANGED <<mode, updates, userMode, events, table, call, waiter, queue, broker,
                     loss, overtaken, left>>
    BY DEF BridgeSubscribes
<1>2. /\ c \in Bridge /\ RestoreOps(bridge, Leases) \in Seq(Modes)
      /\ c.pending = IF Owns(bridge.pending, Leases) THEN None ELSE bridge.pending
      /\ c.active = IF Owns(bridge.active, Leases) THEN None ELSE bridge.active
    BY NowKnown, CancelledKnown DEF Known
<1>3. c.pending = None /\ c.active = None
    BY <1>2, NowKnown, SlotFields DEF Owns
<1> HIDE DEF c
<1>4. /\ bridge' \in Bridge /\ bridge'.pending = None /\ bridge'.active = None
      /\ ~bridge'.registered
    BY <1>1, <1>2, <1>3 DEF Bridge
<1>5. ops' \in Seq(Modes)
    BY <1>1, <1>2, NowKnown, ConcatElements DEF BridgeTypeOK
<1>6. TypeOK'
    BY <1>1, <1>4, <1>5, NowKnown DEF CaptureInv, TypeOK, BridgeTypeOK
<1>7. ASSUME NEW l \in Leases PROVE LeaseOk(l)'
    <2>1. LeaseOk(l)
        BY DEF CaptureInv
    <2>2. Req("Begin", l) # None /\ Req("End", l) # None
        BY RequestAssumption DEF Req, Request
    <2>3. /\ Requests' \subseteq Requests \cup {None} /\ ~SentTo(Req("Begin", l))'
          /\ ~Owns(bridge.pending, {l})' /\ ~Owns(bridge.active, {l})'
        BY <1>1, <1>4, <2>2 DEF Requests, SentTo, Owns
    <2>4. /\ Unsent(l)' <=> Unsent(l)
          /\ Unasked(l)' <=> Unasked(l)
        BY <1>1 DEF Unsent, Unasked
    <2>5. call' = call /\ waiter' = waiter /\ table' = table /\ events' = events
        BY <1>1
    <2> QED
        BY <2>1, <2>2, <2>3, <2>4, <2>5 DEF LeaseOk
<1>8. PriorKnown' /\ OneCapture' /\ TableOk' /\ Reported'
    BY <1>1, <1>4 DEF CaptureInv, PriorKnown, OneCapture, TableOk, Reported
<1>9. Unlinked'
    BY <1>1 DEF CaptureInv, Unlinked, Unsent, Unasked
<1> QED
    BY <1>6, <1>7, <1>8, <1>9 DEF CaptureInv

(* A registration starts with nothing sent.                                *)
LEMMA RegistersInv ==
    ASSUME CaptureInv, BridgeRegisters
    PROVE  CaptureInv'
<1>1. /\ link = "subscribed" /\ link' = "registered" /\ broker = "up"
      /\ bridge' = [bridge EXCEPT !.registered = TRUE]
      /\ UNCHANGED <<hostVars, events, table, call, waiter, queue, wire, late, broker, loss,
                     overtaken, left>>
    BY DEF BridgeRegisters
<1>2. bridge' \in Bridge /\ bridge'.pending = bridge.pending /\ bridge'.active = bridge.active
    BY <1>1, NowKnown DEF Bridge
<1>3. TypeOK'
    BY <1>1, <1>2, NowKnown DEF CaptureInv, TypeOK, BridgeTypeOK, hostVars
<1>4. ASSUME NEW l \in Leases PROVE LeaseOk(l)'
    <2>1. LeaseOk(l) /\ Requests' = Requests
        BY <1>1 DEF CaptureInv, Requests
    <2> QED
        BY <1>1, <1>2, <2>1 DEF LeaseOk, Unsent, Unasked, SentTo, Owns
<1>5. PriorKnown' /\ OneCapture' /\ TableOk' /\ Unlinked'
    BY <1>1, <1>2 DEF CaptureInv, PriorKnown, OneCapture, TableOk, Unlinked
<1>6. Reported'
    <2> SUFFICES ASSUME NEW l \in Leases, Confirmed(l)' PROVE FALSE
        BY DEF Reported
    <2>1. table.lease = l /\ l # None
        BY <1>1, BridgeAssumption DEF Confirmed
    <2>2. table.state = "Beginning" /\ Unsent(l)
        BY <1>1, <2>1 DEF CaptureInv, Unlinked, Idle
    <2>3. waiter[l] \in {"none", "unsent"}
        BY <2>2 DEF CaptureInv, LeaseOk, Unsent, Unasked
    <2> QED
        BY <1>1, <2>2, <2>3 DEF Confirmed
<1> QED
    BY <1>3, <1>4, <1>5, <1>6 DEF CaptureInv

-----------------------------------------------------------------------------
(* The steps of one call, which leave the plugin and the other calls as    *)
(* they are.                                                                *)

CallMoves(l) ==
    /\ UNCHANGED <<bridge, events, link, broker, overtaken, wire, late>>
    /\ table' = table \/ table' = Idle \/ table'.lease = l
    /\ \A k \in Leases : k # l =>
          /\ call'[k] = call[k] /\ waiter'[k] = waiter[k] /\ loss'[k] = loss[k]
          /\ Req("Begin", k) \in Requests' => Req("Begin", k) \in Requests
          /\ Req("End", k) \in Requests' => Req("End", k) \in Requests

(* ... and a capture that is confirmed was so before, and stays reported.  *)
StaysReported(l) == Confirmed(l)' => Confirmed(l) /\ (HeldOrLost(l) => HeldOrLost(l)')

LEMMA CallInv ==
    ASSUME CaptureInv, TypeOK', NEW l \in Leases, CallMoves(l), LeaseOk(l)', TableOk',
           StaysReported(l),
           link # "registered" /\ table'.lease = l => table'.state = "Beginning" /\ Unsent(l)'
    PROVE  CaptureInv'
<1>1. UNCHANGED <<bridge, events, link, broker, overtaken, wire, late>>
    BY DEF CallMoves
<1>2. ASSUME NEW k \in Leases, k # l
      PROVE  /\ LeaseOk(k)' /\ StaysReported(k)
             /\ (Unsent(k) <=> Unsent(k)') /\ (table'.lease = k => table' = table)
    <2>1. /\ call'[k] = call[k] /\ waiter'[k] = waiter[k] /\ loss'[k] = loss[k]
          /\ Req("Begin", k) \in Requests' => Req("Begin", k) \in Requests
          /\ Req("End", k) \in Requests' => Req("End", k) \in Requests
        BY <1>2 DEF CallMoves
    <2>2. Idle.lease # k
        BY BridgeAssumption DEF Idle
    <2>3. table'.lease = k => table' = table
        BY <1>2, <2>2 DEF CallMoves
    <2>4. LeaseOk(k)
        BY DEF CaptureInv
    <2>5. (Unsent(k)' <=> Unsent(k)) /\ (Unasked(k)' <=> Unasked(k))
        BY <2>1 DEF Unsent, Unasked
    <2>6. table' = [state |-> "Beginning", lease |-> k] => table' = table
        BY <2>3
    <2>7. LeaseOk(k)'
        BY <1>1, <2>1, <2>3, <2>4, <2>5, <2>6 DEF LeaseOk, SentTo, Owns
    <2>8. (Confirmed(k)' => Confirmed(k)) /\ (HeldOrLost(k) => HeldOrLost(k)')
        BY <1>1, <2>1, <2>3 DEF Confirmed, HeldOrLost
    <2> QED
        BY <2>3, <2>5, <2>7, <2>8 DEF StaysReported
<1>3. Unlinked'
    <2> SUFFICES ASSUME link # "registered", table' # Idle
                 PROVE  table'.state = "Beginning" /\ \A k \in Leases : k = table'.lease => Unsent(k)'
        <3>1. table'.lease \in Leases \/ table' = Idle
            BY DEF TypeOK, TableOk, Idle
        <3>2. broker' = "suspended" => link' # "registered"
            BY <1>1 DEF CaptureInv, Unlinked
        <3> QED
            BY <1>1, <3>1, <3>2 DEF Unlinked, Unsent, Unasked
    <2>1. CASE table'.lease = l
        BY <2>1
    <2>2. CASE table'.lease # l
        <3>1. table' = table
            BY <2>2 DEF CallMoves
        <3>2. table.state = "Beginning" /\ Unsent(table.lease)
            BY <3>1 DEF CaptureInv, Unlinked
        <3> QED
            BY <1>2, <2>2, <3>1, <3>2
    <2> QED
        BY <2>1, <2>2
<1>4. Reported'
    <2> SUFFICES ASSUME broker = "up", link = "registered", bridge.registered, ~overtaken,
                        NEW k \in Leases, Confirmed(k)'
                 PROVE  HeldOrLost(k)'
        BY <1>1 DEF Reported
    <2>1. Confirmed(k) /\ (HeldOrLost(k) => HeldOrLost(k)')
        BY <1>2 DEF StaysReported
    <2> QED
        BY <2>1 DEF CaptureInv, Reported
<1>5. PriorKnown' /\ OneCapture'
    BY <1>1 DEF CaptureInv, PriorKnown, OneCapture
<1> QED
    BY <1>2, <1>3, <1>4, <1>5 DEF CaptureInv

LEMMA LeaseNow ==
    ASSUME CaptureInv, NEW l \in Leases
    PROVE  /\ LeaseOk(l) /\ TypeOK /\ TableOk /\ l # None
           /\ queue \in Seq(Request) /\ Req("Begin", l) \in Request /\ Req("End", l) \in Request
BY BridgeAssumption DEF CaptureInv, TypeOK, Req, Request

LEMMA ReleasedTable ==
    ASSUME CaptureInv, NEW l \in Leases, table' = Released(l)
    PROVE  /\ table' = table \/ table' = Idle
           /\ table'.lease # l /\ TableOk'
           /\ table' \in [state : {"Idle", "Beginning", "Captured"}, lease : Leases \cup {None}]
BY LeaseNow DEF TypeOK, TableOk, Released, Idle

(* A record of a released call: nothing to confirm or to keep.             *)
LEMMA BeginAdmittedInv ==
    ASSUME CaptureInv, NEW l \in Leases, BeginAdmitted(l)
    PROVE  CaptureInv'
<1>1. /\ UNCHANGED <<hostVars, bridge, events, table, waiter, queue, wire, late, link, broker, loss,
                     overtaken, left>>
      /\ call[l] = "none" /\ call'[l] = "admitted" /\ \A k \in Leases : k # l => call'[k] = call[k]
      /\ call' \in [Leases -> CallPc]
    BY LeaseNow DEF BeginAdmitted, TypeOK, CallPc
<1>2. TypeOK'
    BY <1>1, LeaseNow DEF TypeOK, BridgeTypeOK, hostVars
<1>3. Requests' = Requests /\ CallMoves(l) /\ TableOk'
    BY <1>1, LeaseNow DEF CallMoves, TableOk, Requests
<1>4. StaysReported(l)
    BY <1>1 DEF StaysReported, Confirmed, HeldOrLost
<1>5. LeaseOk(l)' /\ table'.lease # l
    BY <1>1, <1>3, LeaseNow DEF LeaseOk, Unasked, Unsent, SentTo, Owns
<1> QED
    BY <1>2, <1>3, <1>4, <1>5, CallInv

LEMMA BeginTableInv ==
    ASSUME CaptureInv, NEW l \in Leases, BeginTable(l)
    PROVE  CaptureInv'
<1>1. /\ UNCHANGED <<hostVars, bridge, events, waiter, queue, wire, late, link, broker, loss,
                     overtaken, left>>
      /\ call[l] = "admitted" /\ \A k \in Leases : k # l => call'[k] = call[k]
      /\ call' \in [Leases -> CallPc] /\ waiter[l] = "none"
      /\ Requests' = Requests
    <2>1. /\ UNCHANGED <<hostVars, bridge, events, waiter, queue, wire, late, link, broker, loss,
                     overtaken, left>>
          /\ call[l] = "admitted"
        BY DEF BeginTable
    <2>2. (\A k \in Leases : k # l => call'[k] = call[k]) /\ call' \in [Leases -> CallPc]
        BY LeaseNow DEF BeginTable, TypeOK, CallPc
    <2>3. waiter[l] = "none" /\ Requests' = Requests
        BY <2>1, LeaseNow DEF LeaseOk, Requests
    <2> QED
        BY <2>1, <2>2, <2>3
<1>2. CASE table = Idle
    <2>1. table' = [state |-> "Beginning", lease |-> l] /\ call'[l] = "begun"
        BY <1>2, LeaseNow DEF BeginTable, TypeOK
    <2>2. TypeOK' /\ TableOk'
        BY <1>1, <2>1, LeaseNow DEF TypeOK, BridgeTypeOK, hostVars, TableOk
    <2>3. CallMoves(l) /\ StaysReported(l) /\ Unsent(l)'
        BY <1>1, <2>1 DEF CallMoves, StaysReported, Confirmed, Unsent, Unasked
    <2>4. LeaseOk(l)'
        BY <1>1, <2>1, LeaseNow DEF LeaseOk, Unasked, Unsent, SentTo, Owns
    <2> QED
        BY <2>1, <2>2, <2>3, <2>4, CallInv
<1>3. CASE table # Idle
    <2>1. table' = table /\ call'[l] = "failed" /\ table.lease # l
        BY <1>1, <1>3, LeaseNow DEF BeginTable, TypeOK, LeaseOk
    <2>2. TypeOK' /\ TableOk'
        BY <1>1, <2>1, LeaseNow DEF TypeOK, BridgeTypeOK, hostVars, TableOk
    <2>3. CallMoves(l) /\ StaysReported(l)
        BY <1>1, <2>1 DEF CallMoves, StaysReported, Confirmed
    <2>4. LeaseOk(l)'
        BY <1>1, <2>1, LeaseNow DEF LeaseOk, Unasked, Unsent
    <2> QED
        BY <2>1, <2>2, <2>3, <2>4, CallInv
<1> QED
    BY <1>2, <1>3

(* A request of the lease l is added to the queue.                         *)
LEMMA QueuedRequests ==
    ASSUME CaptureInv, NEW l \in Leases, NEW kind \in {"Begin", "End", "Renew"}, UNCHANGED <<wire, late>>,
           queue' = Append(queue, Req(kind, l))
    PROVE  queue' \in Seq(Request) /\ Requests' = Requests \cup {Req(kind, l)}
<1>1. Req(kind, l) \in Request
    BY DEF Req, Request
<1>2. queue' \in Seq(Request) /\ Elements(queue') = Elements(queue) \cup {Req(kind, l)}
    BY <1>1, LeaseNow, AppendElements
<1> QED
    BY <1>2 DEF Requests

LEMMA BeginQueuedInv ==
    ASSUME CaptureInv, NEW l \in Leases, BeginQueued(l)
    PROVE  CaptureInv'
<1>1. /\ UNCHANGED <<hostVars, bridge, events, table, wire, late, link, broker, loss,
                     overtaken, left>>
      /\ call[l] = "begun" /\ call'[l] = "waiting" /\ waiter'[l] = "unsent"
      /\ \A k \in Leases : k # l => call'[k] = call[k] /\ waiter'[k] = waiter[k]
      /\ call' \in [Leases -> CallPc]
      /\ waiter' \in [Leases -> {"none", "unsent", "sent", "ready", "dropped"}]
    BY LeaseNow DEF BeginQueued, TypeOK, CallPc
<1>2. queue' \in Seq(Request) /\ Requests' = Requests \cup {Req("Begin", l)}
    BY <1>1, QueuedRequests DEF BeginQueued
<1>3. /\ \A k \in Leases : k # l => Req("Begin", k) # Req("Begin", l)
      /\ \A k \in Leases : Req("End", k) # Req("Begin", l)
    BY DEF Req
<1>4. TypeOK' /\ TableOk'
    BY <1>1, <1>2, LeaseNow DEF TypeOK, BridgeTypeOK, hostVars, TableOk
<1>5. CallMoves(l)
    BY <1>1, <1>2, <1>3 DEF CallMoves
<1>6. ~SentTo(Req("Begin", l)) /\ waiter[l] = "none"
    BY <1>1, LeaseNow DEF LeaseOk, Unasked, Unsent
<1>7. LeaseOk(l)' /\ Unsent(l)'
    BY <1>1, <1>2, <1>3, <1>6, LeaseNow DEF LeaseOk, Unasked, Unsent, SentTo, Owns
<1>8. StaysReported(l)
    BY <1>1 DEF StaysReported, Confirmed, HeldOrLost
<1>9. link # "registered" /\ table'.lease = l => table'.state = "Beginning"
    BY <1>1, LeaseNow DEF CaptureInv, Unlinked, Idle
<1> QED
    BY <1>4, <1>5, <1>7, <1>8, <1>9, CallInv

LEMMA BeginConfirmedInv ==
    ASSUME CaptureInv, NEW l \in Leases, BeginConfirmed(l)
    PROVE  CaptureInv'
<1>1. /\ UNCHANGED <<hostVars, bridge, events, queue, wire, late, link, broker, loss,
                     overtaken, left>>
      /\ call[l] = "waiting" /\ waiter[l] = "ready" /\ waiter'[l] = "none"
      /\ \A k \in Leases : k # l => call'[k] = call[k] /\ waiter'[k] = waiter[k]
      /\ call' \in [Leases -> CallPc] /\ Requests' = Requests
      /\ waiter' \in [Leases -> {"none", "unsent", "sent", "ready", "dropped"}]
    BY LeaseNow DEF BeginConfirmed, TypeOK, CallPc, Requests
<1>2. CASE TableIs("Beginning", l)
    <2>1. /\ table' = [state |-> "Captured", lease |-> l] /\ call'[l] = "confirmed"
          /\ table.lease = l
        BY <1>2, LeaseNow DEF BeginConfirmed, TypeOK, TableIs
    <2>2. TypeOK' /\ TableOk'
        BY <1>1, <2>1, LeaseNow DEF TypeOK, BridgeTypeOK, hostVars, TableOk
    <2>3. CallMoves(l) /\ StaysReported(l)
        BY <1>1, <2>1 DEF CallMoves, StaysReported, Confirmed, HeldOrLost
    <2>4. LeaseOk(l)'
        BY <1>1, <2>1, LeaseNow DEF LeaseOk, Unasked, Unsent
    <2>5. link = "registered"
        BY <1>1, <2>1, LeaseNow DEF CaptureInv, Unlinked, Idle, Unsent, Unasked
    <2> QED
        BY <2>2, <2>3, <2>4, <2>5, CallInv
<1>3. CASE ~TableIs("Beginning", l)
    <2>1. table' = Released(l) /\ call'[l] = "failed"
        BY <1>3, LeaseNow DEF BeginConfirmed, TypeOK
    <2>2. /\ table' = table \/ table' = Idle
          /\ table'.lease # l /\ TableOk'
          /\ table' \in [state : {"Idle", "Beginning", "Captured"}, lease : Leases \cup {None}]
        BY <2>1, ReleasedTable
    <2>3. TypeOK'
        BY <1>1, <2>2, LeaseNow DEF TypeOK, BridgeTypeOK, hostVars
    <2>4. CallMoves(l) /\ StaysReported(l)
        BY <1>1, <2>2 DEF CallMoves, StaysReported, Confirmed
    <2>5. LeaseOk(l)'
        BY <1>1, <2>1, <2>2, LeaseNow DEF LeaseOk, Unasked, Unsent
    <2> QED
        BY <2>2, <2>3, <2>4, <2>5, CallInv
<1> QED
    BY <1>2, <1>3

LEMMA BeginTimesOutInv ==
    ASSUME CaptureInv, NEW l \in Leases, BeginTimesOut(l)
    PROVE  CaptureInv'
<1>1. /\ UNCHANGED <<hostVars, bridge, events, wire, late, link, broker, loss,
                     overtaken, left>>
      /\ call[l] = "waiting" /\ waiter'[l] = "none" /\ call'[l] \in {"sentTimeout", "failed"}
      /\ \A k \in Leases : k # l => call'[k] = call[k] /\ waiter'[k] = waiter[k]
      /\ call' \in [Leases -> CallPc]
      /\ waiter' \in [Leases -> {"none", "unsent", "sent", "ready", "dropped"}]
    BY LeaseNow DEF BeginTimesOut, TypeOK, CallPc
<1>2. queue' \in Seq(Request) /\ Elements(queue') \subseteq Elements(queue)
    BY LeaseNow, WithoutElements DEF BeginTimesOut
<1>3. Requests' \subseteq Requests
    BY <1>1, <1>2 DEF Requests
<1>4. /\ table' = table \/ table' = Idle
      /\ table'.lease # l /\ TableOk'
      /\ table' \in [state : {"Idle", "Beginning", "Captured"}, lease : Leases \cup {None}]
    BY ReleasedTable DEF BeginTimesOut
<1>5. TypeOK'
    BY <1>1, <1>2, <1>4, LeaseNow DEF TypeOK, BridgeTypeOK, hostVars
<1>6. CallMoves(l) /\ StaysReported(l)
    BY <1>1, <1>3, <1>4 DEF CallMoves, StaysReported, Confirmed
<1>7. Req("End", l) \notin Requests'
    BY <1>1, <1>3, LeaseNow DEF LeaseOk
<1>8. LeaseOk(l)'
    BY <1>1, <1>3, <1>4, <1>7, LeaseNow DEF LeaseOk, Unasked, Unsent
<1> QED
    BY <1>4, <1>5, <1>6, <1>8, CallInv

LEMMA BeginTakenBackInv ==
    ASSUME CaptureInv, NEW l \in Leases, BeginTakenBack(l)
    PROVE  CaptureInv'
<1>1. /\ UNCHANGED <<hostVars, bridge, events, table, waiter, wire, late, link, broker, loss,
                     overtaken, left>>
      /\ call[l] = "sentTimeout" /\ call'[l] = "failed"
      /\ \A k \in Leases : k # l => call'[k] = call[k]
      /\ call' \in [Leases -> CallPc]
    BY LeaseNow DEF BeginTakenBack, TypeOK, CallPc
<1>2. queue' \in Seq(Request) /\ Requests' = Requests \cup {Req("End", l)}
    BY <1>1, QueuedRequests DEF BeginTakenBack
<1>3. /\ \A k \in Leases : k # l => Req("End", k) # Req("End", l)
      /\ \A k \in Leases : Req("Begin", k) # Req("End", l)
    BY DEF Req
<1>4. TypeOK' /\ TableOk' /\ table'.lease # l
    BY <1>1, <1>2, LeaseNow DEF TypeOK, BridgeTypeOK, hostVars, TableOk, LeaseOk
<1>5. CallMoves(l) /\ StaysReported(l)
    BY <1>1, <1>2, <1>3, <1>4 DEF CallMoves, StaysReported, Confirmed
<1>6. LeaseOk(l)'
    BY <1>1, <1>2, <1>3, <1>4, LeaseNow DEF LeaseOk, Unasked, Unsent
<1> QED
    BY <1>4, <1>5, <1>6, CallInv

(* The broker stores the capture, or ends it.                              *)
LEMMA BrokerMovesInv ==
    ASSUME CaptureInv, NEW l \in Leases, BrokerStores(l) \/ Detaches(l) \/ BrokerHears(l)
    PROVE  CaptureInv'
<1>1. /\ UNCHANGED <<hostVars, bridge, events, table, waiter, queue, wire, late, link, broker,
                     overtaken, left>>
      /\ Requests' = Requests
    BY DEF BrokerStores, Detaches, BrokerHears, Requests
<1>2. /\ \A k \in Leases : k # l => call'[k] = call[k] /\ loss'[k] = loss[k]
      /\ call' \in [Leases -> CallPc] /\ loss' \in [Leases -> {"none", "told", "ignored"}]
      /\ \/ call'[l] = call[l] /\ call[l] # "held"
         \/ call[l] \in {"confirmed", "held"} /\ call'[l] \in {"held", "detached"}
      /\ HeldOrLost(l) => loss'[l] = loss[l] \/ loss'[l] = "ignored" \/ call'[l] = "detached"
      /\ call[l] = "detached" => call'[l] = "detached"
    <2>1. CASE BrokerStores(l) \/ Detaches(l)
        BY <2>1, LeaseNow DEF BrokerStores, Detaches, TypeOK, CallPc
    <2>2. CASE BrokerHears(l)
        BY <2>2, LeaseNow DEF BrokerHears, TypeOK, CallPc
    <2> QED
        BY <2>1, <2>2
<1>3. TypeOK' /\ TableOk'
    BY <1>1, <1>2, LeaseNow DEF TypeOK, BridgeTypeOK, hostVars, TableOk
<1>4. CallMoves(l)
    BY <1>1, <1>2 DEF CallMoves
<1>5. StaysReported(l)
    BY <1>1, <1>2 DEF StaysReported, Confirmed, HeldOrLost
<1>6. LeaseOk(l)'
    BY <1>1, <1>2, LeaseNow DEF LeaseOk, Unasked, Unsent, SentTo, Owns
<1>7. link # "registered" /\ table'.lease = l => table'.state = "Beginning" /\ Unsent(l)'
    <2> SUFFICES ASSUME link # "registered", table.lease = l
                 PROVE  table.state = "Beginning" /\ Unsent(l)'
        BY <1>1
    <2>1. table.state = "Beginning" /\ Unsent(l)
        BY LeaseNow DEF CaptureInv, Unlinked, Idle
    <2> QED
        BY <1>1, <1>2, <2>1 DEF Unsent, Unasked
<1> QED
    BY <1>3, <1>4, <1>5, <1>6, <1>7, CallInv

LEMMA EndReleasesInv ==
    ASSUME CaptureInv, NEW l \in Leases, EndReleases(l)
    PROVE  CaptureInv'
<1>1. /\ UNCHANGED <<hostVars, bridge, events, waiter, queue, wire, late, link, broker, loss,
                     overtaken, left>>
      /\ call[l] = "detached" /\ call'[l] = "releasing"
      /\ \A k \in Leases : k # l => call'[k] = call[k]
      /\ call' \in [Leases -> CallPc] /\ Requests' = Requests
    BY LeaseNow DEF EndReleases, TypeOK, CallPc, Requests
<1>2. /\ table' = table \/ table' = Idle
      /\ table'.lease # l /\ TableOk'
      /\ table' \in [state : {"Idle", "Beginning", "Captured"}, lease : Leases \cup {None}]
    BY ReleasedTable DEF EndReleases
<1>3. TypeOK'
    BY <1>1, <1>2, LeaseNow DEF TypeOK, BridgeTypeOK, hostVars
<1>4. CallMoves(l) /\ StaysReported(l)
    BY <1>1, <1>2 DEF CallMoves, StaysReported, Confirmed
<1>5. Req("End", l) \notin Requests' /\ waiter'[l] = "none" /\ ~Unsent(l)' /\ ~Unasked(l)'
    BY <1>1, LeaseNow DEF LeaseOk, Unasked, Unsent
<1>6. LeaseOk(l)'
    BY <1>1, <1>2, <1>5 DEF LeaseOk
<1> QED
    BY <1>2, <1>3, <1>4, <1>6, CallInv

LEMMA EndQueuedInv ==
    ASSUME CaptureInv, NEW l \in Leases, EndQueued(l)
    PROVE  CaptureInv'
<1>1. /\ UNCHANGED <<hostVars, bridge, events, table, waiter, wire, late, link, broker, loss,
                     overtaken, left>>
      /\ call[l] = "releasing" /\ call'[l] = "ended"
      /\ \A k \in Leases : k # l => call'[k] = call[k]
      /\ call' \in [Leases -> CallPc]
    BY LeaseNow DEF EndQueued, TypeOK, CallPc
<1>2. queue' \in Seq(Request) /\ Requests' \subseteq Requests \cup {Req("End", l)}
    <2>1. CASE link = "registered"
        BY <1>1, <2>1, QueuedRequests DEF EndQueued
    <2>2. CASE link # "registered"
        BY <1>1, <2>2, LeaseNow DEF EndQueued, Requests
    <2> QED
        BY <2>1, <2>2
<1>3. /\ \A k \in Leases : k # l => Req("End", k) # Req("End", l)
      /\ \A k \in Leases : Req("Begin", k) # Req("End", l)
    BY DEF Req
<1>4. TypeOK' /\ TableOk' /\ table'.lease # l
    BY <1>1, <1>2, LeaseNow DEF TypeOK, BridgeTypeOK, hostVars, TableOk, LeaseOk
<1>5. CallMoves(l) /\ StaysReported(l)
    BY <1>1, <1>2, <1>3, <1>4 DEF CallMoves, StaysReported, Confirmed
<1>6. LeaseOk(l)'
    BY <1>1, <1>2, <1>3, <1>4, LeaseNow DEF LeaseOk, Unasked, Unsent
<1> QED
    BY <1>4, <1>5, <1>6, CallInv

LEMMA RenewsInv ==
    ASSUME CaptureInv, Renews
    PROVE  CaptureInv'
<1>1. PICK l \in Leases : l = table.lease
    BY DEF Renews, CaptureInv, TypeOK, TableOk
<1>2. UNCHANGED <<hostVars, bridge, events, table, call, waiter, wire, late, link, broker, loss,
                     overtaken, left>>
    BY DEF Renews
<1>3. queue' \in Seq(Request) /\ Requests' = Requests \cup {Req("Renew", l)}
    BY <1>1, <1>2, QueuedRequests DEF Renews
<1>4. \A k \in Leases : Req("Begin", k) # Req("Renew", l) /\ Req("End", k) # Req("Renew", l)
    BY DEF Req
<1>5. TypeOK' /\ TableOk'
    BY <1>2, <1>3, LeaseNow DEF TypeOK, BridgeTypeOK, hostVars, TableOk
<1>6. CallMoves(l) /\ StaysReported(l)
    BY <1>2, <1>3, <1>4 DEF CallMoves, StaysReported, Confirmed, HeldOrLost
<1>7. LeaseOk(l)'
    BY <1>2, <1>3, <1>4, LeaseNow DEF LeaseOk, Unasked, Unsent, SentTo, Owns
<1>8. link # "registered" /\ table'.lease = l => table'.state = "Beginning" /\ Unsent(l)'
    BY <1>1, <1>2, LeaseNow DEF CaptureInv, Unlinked, Idle, Unsent, Unasked
<1> QED
    BY <1>5, <1>6, <1>7, <1>8, CallInv

-----------------------------------------------------------------------------
(* The pipes and the faults.                                                *)

(* A request is written, and may be with the plugin: its waiter knows.     *)
LEMMA SendsInv ==
    ASSUME CaptureInv, CanSend, WaiterSent, left' \in Budget,
           UNCHANGED <<hostVars, bridge, events, table, call, link, broker, loss, overtaken>>,
           \/ wire' = Head(queue) /\ queue' = Tail(queue) /\ late' = late
           \/ UNCHANGED <<wire, queue>> /\ late' \subseteq late \cup {Head(queue)}
    PROVE  CaptureInv'
<1> DEFINE q == Head(queue)
<1>1. /\ link = "registered" /\ broker = "up"
      /\ queue # <<>> /\ queue \in Seq(Request) /\ wire \in Request \cup {None}
      /\ late \subseteq Request
      /\ waiter \in [Leases -> {"none", "unsent", "sent", "ready", "dropped"}]
    BY DEF CanSend, CaptureInv, TypeOK
<1>2. waiter' = [l \in Leases |->
                    IF q = Req("Begin", l) /\ waiter[l] = "unsent" THEN "sent" ELSE waiter[l]]
    BY DEF WaiterSent
<1>3. /\ q \in Request /\ Tail(queue) \in Seq(Request)
      /\ Elements(queue) = Elements(Tail(queue)) \cup {q}
    BY <1>1, TailElements
<1>4. q \in Requests
    BY <1>3 DEF Requests
<1> HIDE DEF q
<1>5. /\ queue' \in Seq(Request) /\ Elements(queue') \subseteq Elements(queue)
      /\ wire' \in {wire, q} /\ late' \subseteq late \cup {q}
    BY <1>1, <1>3 DEF q
<1>6. /\ Requests' \subseteq Requests
      /\ \A x : SentTo(x)' => SentTo(x) \/ x = q
    BY <1>4, <1>5 DEF Requests, SentTo
<1>7. waiter' \in [Leases -> {"none", "unsent", "sent", "ready", "dropped"}]
    BY <1>1, <1>2
<1>8. TypeOK'
    BY <1>1, <1>3, <1>5, <1>7 DEF CaptureInv, TypeOK, BridgeTypeOK, hostVars
<1>9. ASSUME NEW l \in Leases
      PROVE  /\ waiter'[l] = "none" <=> waiter[l] = "none"
             /\ waiter'[l] # waiter[l] => waiter[l] = "unsent" /\ waiter'[l] = "sent"
             /\ q = Req("Begin", l) => ~Unsent(l)'
             /\ Unsent(l)' => Unsent(l)
    <2>1. waiter'[l] = IF q = Req("Begin", l) /\ waiter[l] = "unsent" THEN "sent" ELSE waiter[l]
        BY <1>2
    <2>2. q = Req("Begin", l) => ~Unasked(l)
        BY <1>4 DEF CaptureInv, LeaseOk
    <2> QED
        BY <2>1, <2>2 DEF Unsent, Unasked
<1>10. ASSUME NEW l \in Leases PROVE LeaseOk(l)'
    <2>1. LeaseOk(l)
        BY DEF CaptureInv
    <2>2. Unsent(l)' => ~SentTo(Req("Begin", l))'
        BY <1>6, <1>9, <2>1 DEF LeaseOk
    <2> QED
        BY <1>6, <1>9, <2>1, <2>2 DEF LeaseOk, Unasked, Owns
<1>11. Reported'
    <2> SUFFICES ASSUME bridge.registered, ~overtaken, NEW l \in Leases, Confirmed(l)'
                 PROVE  HeldOrLost(l)'
        BY DEF Reported
    <2>1. Confirmed(l)
        <3>1. waiter'[l] # waiter[l] => Unsent(l)
            BY <1>9 DEF CaptureInv, LeaseOk, Unsent
        <3>2. Unsent(l) => Ready(l) \notin Elements(events)
            BY DEF CaptureInv, LeaseOk
        <3> QED
            BY <1>9, <3>1, <3>2 DEF Confirmed
    <2>2. HeldOrLost(l)
        BY <1>1, <2>1 DEF CaptureInv, Reported
    <2> QED
        BY <2>2 DEF HeldOrLost
<1>12. PriorKnown' /\ OneCapture' /\ TableOk' /\ Unlinked'
    BY <1>1 DEF CaptureInv, PriorKnown, OneCapture, TableOk, Unlinked
<1> QED
    BY <1>8, <1>10, <1>11, <1>12 DEF CaptureInv

LEMMA PumpInv ==
    ASSUME CaptureInv, Pump
    PROVE  CaptureInv'
<1>1. left' \in Budget
    BY DEF Pump, CaptureInv, TypeOK
<1> QED
    BY <1>1, SendsInv DEF Pump

(* handle_event_line *)
LEMMA HearsInv ==
    ASSUME CaptureInv, AdapterHears
    PROVE  CaptureInv'
<1>1. /\ UNCHANGED <<hostVars, bridge, table, call, queue, wire, late, link, broker,
                     overtaken, left>>
      /\ link = "registered" /\ broker = "up"
      /\ events # <<>> /\ events \in Seq(Event) /\ events' = Tail(events)
      /\ waiter \in [Leases -> {"none", "unsent", "sent", "ready", "dropped"}]
    BY NowKnown DEF AdapterHears, CaptureInv, TypeOK, BridgeTypeOK
<1>2. PICK e \in Event : e = Head(events)
    BY <1>1, TailElements
<1>3. events' \in Seq(Event) /\ Elements(events) = Elements(events') \cup {e}
    BY <1>1, <1>2, TailElements
<1>4. /\ loss' = IF e.kind = "CaptureLost" THEN [loss EXCEPT ![e.lease] = "told"] ELSE loss
      /\ waiter' = [waiter EXCEPT ![e.lease] =
                    IF e.kind = "CaptureReady"
                    THEN (IF waiter[e.lease] = "sent" THEN "ready" ELSE waiter[e.lease])
                    ELSE IF waiter[e.lease] \in {"unsent", "sent"} THEN "dropped" ELSE waiter[e.lease]]
    BY <1>2 DEF AdapterHears
<1>5. /\ e.lease \in Leases /\ loss' \in [Leases -> {"none", "told", "ignored"}]
      /\ \A l \in Leases : loss'[l] = loss[l] \/ loss'[l] = "told"
      /\ e.kind = "CaptureLost" => loss'[e.lease] = "told"
      /\ waiter' \in [Leases -> {"none", "unsent", "sent", "ready", "dropped"}]
    BY <1>1, <1>4 DEF Event, CaptureInv, TypeOK
<1>6. TypeOK'
    BY <1>1, <1>3, <1>5 DEF CaptureInv, TypeOK, BridgeTypeOK, hostVars
<1>7. ASSUME NEW l \in Leases
      PROVE  /\ waiter'[l] = "none" <=> waiter[l] = "none"
             /\ waiter'[l] = "unsent" => waiter[l] = "unsent"
             /\ waiter'[l] = "sent" => waiter[l] = "sent"
             /\ waiter'[l] = "ready" => waiter[l] = "ready" \/ (waiter[l] = "sent" /\ Ready(l) \in Elements(events))
             /\ Unsent(l)' => Unsent(l)
    <2>1. CASE l # e.lease
        BY <1>1, <1>4, <2>1 DEF Unsent, Unasked
    <2>2. CASE l = e.lease
        <3>1. e.kind = "CaptureReady" => e = Ready(l)
            BY <2>2 DEF Event, Ready
        <3> QED
            BY <1>1, <1>3, <1>4, <2>2, <3>1 DEF Unsent, Unasked
    <2> QED
        BY <2>1, <2>2
<1>8. ASSUME NEW l \in Leases PROVE LeaseOk(l)'
    <2>1. Requests' = Requests
        BY <1>1 DEF Requests
    <2> QED
        BY <1>1, <1>3, <1>7, <2>1 DEF CaptureInv, LeaseOk, Unasked, SentTo, Owns
<1>9. Reported'
    <2> SUFFICES ASSUME bridge.registered, ~overtaken, NEW l \in Leases, Confirmed(l)'
                 PROVE  HeldOrLost(l)'
        BY <1>1 DEF Reported
    <2>1. Confirmed(l)
        BY <1>1, <1>3, <1>7 DEF Confirmed
    <2>2. HeldOrLost(l)
        BY <1>1, <2>1 DEF CaptureInv, Reported
    <2>3. Lost(l) = e => loss'[l] = "told"
        BY <1>5 DEF Lost
    <2> QED
        BY <1>1, <1>3, <1>5, <2>2, <2>3 DEF HeldOrLost
<1>10. PriorKnown' /\ OneCapture' /\ TableOk' /\ Unlinked'
    BY <1>1 DEF CaptureInv, PriorKnown, OneCapture, TableOk, Unlinked
<1> QED
    BY <1>6, <1>8, <1>9, <1>10 DEF CaptureInv

(* What is dropped concerns no registration.                               *)
LEMMA IgnoresInv ==
    ASSUME CaptureInv, AdapterIgnores
    PROVE  CaptureInv'
<1>1. /\ UNCHANGED <<hostVars, bridge, table, call, waiter, queue, wire, late, link, broker, loss,
                     overtaken, left>>
      /\ broker # "up" \/ link # "registered"
      /\ events # <<>> /\ events' = Tail(events) /\ events \in Seq(Event)
    BY NowKnown DEF AdapterIgnores, adapterVars, BridgeTypeOK
<1>2. events' \in Seq(Event) /\ Elements(events') \subseteq Elements(events)
    BY <1>1, TailElements
<1>3. TypeOK'
    BY <1>1, <1>2 DEF CaptureInv, TypeOK, BridgeTypeOK, hostVars
<1>4. ASSUME NEW l \in Leases PROVE LeaseOk(l)'
    <2>1. LeaseOk(l) /\ Requests' = Requests
        BY <1>1 DEF CaptureInv, Requests
    <2> QED
        BY <1>1, <1>2, <2>1 DEF LeaseOk, Unsent, Unasked, SentTo, Owns
<1>5. Unlinked'
    BY <1>1 DEF CaptureInv, Unlinked, Unsent, Unasked
<1>6. PriorKnown' /\ OneCapture' /\ TableOk' /\ Reported'
    BY <1>1 DEF CaptureInv, PriorKnown, OneCapture, TableOk, Reported
<1> QED
    BY <1>3, <1>4, <1>5, <1>6 DEF CaptureInv

(* What retire_registration_state leaves of the waiters.                   *)
LEMMA RetiredWaiters ==
    ASSUME CaptureInv, RetireWaiters, UNCHANGED call
    PROVE  /\ waiter' \in [Leases -> {"none", "unsent", "sent", "ready", "dropped"}]
           /\ \A l \in Leases :
                 /\ waiter'[l] = "none" <=> waiter[l] = "none"
                 /\ Unsent(l)' => Unsent(l)
                 /\ waiter[l] = "unsent" /\ table.lease = l => waiter'[l] = "unsent"
<1>1. waiter \in [Leases -> {"none", "unsent", "sent", "ready", "dropped"}]
    BY DEF CaptureInv, TypeOK
<1>2. \A l \in Leases : waiter'[l] = IF waiter[l] = "sent" \/ (waiter[l] = "unsent" /\ table.lease # l)
                                     THEN "dropped" ELSE waiter[l]
    BY DEF RetireWaiters
<1>3. waiter' \in [Leases -> {"none", "unsent", "sent", "ready", "dropped"}]
    BY <1>1 DEF RetireWaiters
<1> QED
    BY <1>2, <1>3 DEF Unsent, Unasked

(* A request that is given up on was sent.                                 *)
LEMMA GivenUp ==
    ASSUME CaptureInv, GivesUp
    PROVE  /\ wire' = None /\ late' \subseteq late \cup ({wire} \ {None}) /\ late' \subseteq Request
           /\ \A l \in Leases : /\ Req("Begin", l) # None /\ Req("End", l) # None
                                /\ SentTo(Req("Begin", l))' => SentTo(Req("Begin", l))
<1>1. wire' = None /\ late' \subseteq late \cup ({wire} \ {None}) /\ late' \subseteq Request
    BY DEF GivesUp, CaptureInv, TypeOK
<1>2. \A l \in Leases : Req("Begin", l) # None /\ Req("End", l) # None
    BY RequestAssumption DEF Req, Request
<1> QED
    BY <1>1, <1>2 DEF SentTo

(* A registration is retired: the waiters of sent requests are dropped,    *)
(* and the record stays only for a request that was not sent.              *)
LEMMA RetiresInv ==
    ASSUME CaptureInv, RetireWaiters, RetirementTold, GivesUp, table' \in {Idle, RetiredTable},
           link' # "registered", UNCHANGED <<hostVars, bridge, call, overtaken>>,
           events' \in {events, <<>>}, queue' \in {queue, <<>>},
           link' \in {"lost", "subscribing"}, broker' \in {"up", "suspended"}, left' \in Budget
    PROVE  CaptureInv'
<1>1. Idle.lease = None /\ Idle.state = "Idle" /\ Idle \in [state : {"Idle", "Beginning", "Captured"}, lease : Leases \cup {None}]
    BY DEF Idle
<1>2. table' = table \/ table' = Idle
    BY DEF RetiredTable
<1>3. queue \in Seq(Request) /\ events \in Seq(Event) /\ <<>> \in Seq(Request) /\ <<>> \in Seq(Event)
    BY DEF CaptureInv, TypeOK, BridgeTypeOK
<1>4. queue' \in Seq(Request) /\ events' \in Seq(Event)
    BY <1>3
<1>5. Elements(<<>>) = {}
    BY DEF Elements
<1>6. Elements(queue') \subseteq Elements(queue) /\ Elements(events') \subseteq Elements(events)
    BY <1>5
<1>7. TypeOK'
    <2>1. loss' \in [Leases -> {"none", "told", "ignored"}]
        BY DEF CaptureInv, TypeOK, RetirementTold
    <2> QED
        BY <1>1, <1>2, <1>4, <2>1, RetiredWaiters, GivenUp
           DEF CaptureInv, TypeOK, BridgeTypeOK, hostVars
<1>8. ASSUME NEW l \in Leases PROVE LeaseOk(l)'
    <2>1. LeaseOk(l) /\ l # None
        BY LeaseNow
    <2>2. table'.lease = l => table' = table
        BY <1>1, <1>2, <2>1
    <2>3. table' = [state |-> "Beginning", lease |-> l] => table' = table
        BY <2>2
    <2>4. (waiter'[l] = "none" <=> waiter[l] = "none") /\ (Unsent(l)' => Unsent(l)) /\ (Unasked(l)' <=> Unasked(l))
        BY RetiredWaiters DEF Unasked
    <2>5. /\ Req("Begin", l) # None /\ Req("End", l) # None /\ Requests' \subseteq Requests \cup {None}
          /\ SentTo(Req("Begin", l))' => SentTo(Req("Begin", l))
        BY <1>6, GivenUp DEF Requests
    <2> QED
        BY <1>6, <2>1, <2>2, <2>3, <2>4, <2>5 DEF LeaseOk, Owns
<1>9. Unlinked'
    <2> SUFFICES ASSUME table' # Idle
                 PROVE  table'.state = "Beginning" /\ Unsent(table.lease)' /\ table' = table
        BY DEF Unlinked, Unsent, Unasked
    <2>1. table' = table /\ table.state = "Beginning" /\ waiter[table.lease] = "unsent"
        BY DEF RetiredTable
    <2>2. PICK l \in Leases : l = table.lease
        BY <2>1 DEF CaptureInv, TypeOK, TableOk
    <2>3. waiter'[l] = "unsent" /\ call[l] = "waiting"
        BY <2>1, <2>2, RetiredWaiters, LeaseNow DEF LeaseOk
    <2> QED
        BY <2>1, <2>2, <2>3 DEF Unsent
<1>10. TableOk'
    BY <1>1, <1>2 DEF CaptureInv, TableOk
<1>11. PriorKnown' /\ OneCapture' /\ Reported'
    BY DEF CaptureInv, PriorKnown, OneCapture, Reported
<1> QED
    BY <1>7, <1>8, <1>9, <1>10, <1>11 DEF CaptureInv

LEMMA OrReloadedBudget ==
    ASSUME CaptureInv, NEW kind, FaultOrReloaded(kind)
    PROVE  left' \in Budget /\ left'.switches = left.switches
BY FaultBudget DEF FaultOrReloaded, CaptureInv, TypeOK

LEMMA ChannelRestartsInv ==
    ASSUME CaptureInv, ChannelRestarts
    PROVE  CaptureInv'
<1>1. left' \in Budget
    BY FaultBudget DEF ChannelRestarts
<1> QED
    BY <1>1, RetiresInv DEF ChannelRestarts

LEMMA ClientExpiresInv ==
    ASSUME CaptureInv, ClientExpires
    PROVE  CaptureInv'
<1>1. left' \in Budget
    BY OrReloadedBudget DEF ClientExpires
<1> QED
    BY <1>1, RetiresInv DEF ClientExpires

LEMMA SuspendInv ==
    ASSUME CaptureInv, Suspend
    PROVE  CaptureInv'
<1>1. left' \in Budget
    BY FaultBudget DEF Suspend
<1> QED
    BY <1>1, RetiresInv DEF Suspend

LEMMA RequestLostInv ==
    ASSUME CaptureInv, RequestLost
    PROVE  CaptureInv'
<1>1. left' \in Budget
    BY OrReloadedBudget DEF RequestLost
<1>2. UNCHANGED <<hostVars, bridge, events, table, call, waiter, queue, link, broker, loss, overtaken>>
    BY DEF RequestLost
<1>3. BridgeTypeOK'
    BY <1>2, NowKnown DEF BridgeTypeOK, hostVars
<1>4. PluginMoves
    BY <1>1, <1>2, <1>3, NowKnown, GivenUp DEF RequestLost, PluginMoves, CaptureInv, TypeOK, OneCapture
<1> QED
    BY <1>4, PluginInv

(* A write that failed leaves the request where it was.                    *)
LEMMA WriteFailsInv ==
    ASSUME CaptureInv, WriteFails
    PROVE  CaptureInv'
<1>1. left' \in Budget
    BY FaultBudget DEF WriteFails
<1>2. late' \subseteq late \cup {Head(queue)}
    BY DEF WriteFails
<1> QED
    BY <1>1, <1>2, SendsInv DEF WriteFails

LEMMA ResumeInv ==
    ASSUME CaptureInv, Resume
    PROVE  CaptureInv'
<1>1. /\ UNCHANGED <<hostVars, bridge, events, table, call, waiter, queue, wire, late, loss,
                     overtaken, left>>
      /\ broker = "suspended" /\ broker' = "up" /\ link' = "subscribing" /\ link # "registered"
    BY DEF Resume, CaptureInv, Unlinked
<1>2. TypeOK'
    BY <1>1 DEF CaptureInv, TypeOK, BridgeTypeOK, hostVars
<1>3. ASSUME NEW l \in Leases PROVE LeaseOk(l)'
    <2>1. LeaseOk(l) /\ Requests' = Requests
        BY <1>1 DEF CaptureInv, Requests
    <2> QED
        BY <1>1, <2>1 DEF LeaseOk, Unsent, Unasked, SentTo, Owns
<1>4. Unlinked'
    BY <1>1 DEF CaptureInv, Unlinked, Unsent, Unasked
<1>5. PriorKnown' /\ OneCapture' /\ TableOk' /\ Reported'
    BY <1>1 DEF CaptureInv, PriorKnown, OneCapture, TableOk, Reported
<1> QED
    BY <1>2, <1>3, <1>4, <1>5 DEF CaptureInv

LEMMA BrokerDiesInv ==
    ASSUME CaptureInv, BrokerDies
    PROVE  CaptureInv'
<1>1. /\ UNCHANGED <<hostVars, bridge, events, table, call, waiter, link, loss, overtaken>>
      /\ broker' = "dead" /\ queue' = <<>> /\ left' \in Budget
    BY FaultBudget DEF BrokerDies
<1>2. queue' \in Seq(Request) /\ Elements(queue') = {}
    BY <1>1 DEF Elements
<1>3. TypeOK'
    BY <1>1, <1>2, GivenUp DEF BrokerDies, CaptureInv, TypeOK, BridgeTypeOK, hostVars
<1>4. ASSUME NEW l \in Leases PROVE LeaseOk(l)'
    <2>1. LeaseOk(l)
        BY DEF CaptureInv
    <2>2. /\ Req("Begin", l) # None /\ Req("End", l) # None /\ Requests' \subseteq Requests \cup {None}
          /\ SentTo(Req("Begin", l))' => SentTo(Req("Begin", l))
        BY <1>2, GivenUp DEF BrokerDies, Requests
    <2> QED
        BY <1>1, <2>1, <2>2 DEF LeaseOk, Unsent, Unasked, Owns
<1>5. Unlinked'
    BY <1>1 DEF CaptureInv, Unlinked, Unsent, Unasked
<1>6. PriorKnown' /\ OneCapture' /\ TableOk'
    BY <1>1 DEF CaptureInv, PriorKnown, OneCapture, TableOk
<1>7. Reported'
    BY <1>1 DEF Reported
<1> QED
    BY <1>3, <1>4, <1>5, <1>6, <1>7 DEF CaptureInv

-----------------------------------------------------------------------------

LEMMA InitCaptures == Init => CaptureInv
<1> SUFFICES ASSUME Init PROVE CaptureInv
    OBVIOUS
<1>1. /\ FreshBridge \in Bridge /\ FreshBridge.pending = None /\ FreshBridge.active = None
    BY DEF FreshBridge, Bridge
<1>2. mode \in Modes
    BY DEF Init, Modes
<1>3. bridge \in Bridge /\ bridge.pending = None /\ bridge.active = None
    BY <1>1, <1>2 DEF Init, Bridge
<1>4. BridgeTypeOK
    BY <1>2, <1>3 DEF Init, BridgeTypeOK
<1>5. TypeOK
    <2>1. left \in Budget
        BY BudgetsAssumption DEF Init
    <2>2. call \in [Leases -> CallPc] /\ waiter \in [Leases -> {"none", "unsent", "sent", "ready", "dropped"}]
        BY DEF Init, CallPc
    <2>3. /\ table \in [state : {"Idle", "Beginning", "Captured"}, lease : Leases \cup {None}]
          /\ queue \in Seq(Request) /\ wire \in Request \cup {None} /\ late \subseteq Request
        BY DEF Init, Idle
    <2>4. /\ link = "registered" /\ broker = "up" /\ overtaken = FALSE
          /\ loss \in [Leases -> {"none", "told", "ignored"}]
        BY DEF Init
    <2> QED
        BY <1>4, <2>1, <2>2, <2>3, <2>4 DEF TypeOK
<1>6. Elements(<<>>) = {}
    BY DEF Elements
<1>7. ASSUME NEW l \in Leases PROVE LeaseOk(l)
    <2>1. /\ call[l] = "none" /\ waiter[l] = "none" /\ wire = None /\ late = {} /\ table.lease = None /\ l # None
          /\ Elements(queue) = {} /\ Elements(events) = {} /\ table # [state |-> "Beginning", lease |-> l]
        BY <1>6, BridgeAssumption DEF Init, Idle
    <2>2. Req("Begin", l) # None /\ Req("End", l) # None
        BY RequestAssumption DEF Req, Request
    <2> QED
        BY <1>3, <2>1, <2>2 DEF LeaseOk, Requests, SentTo, Unsent, Unasked, Owns
<1>8. PriorKnown /\ OneCapture /\ TableOk /\ Unlinked
    BY <1>3 DEF Init, PriorKnown, OneCapture, TableOk, Unlinked, Idle
<1>9. Reported
    BY BridgeAssumption DEF Init, Reported, Confirmed, Idle
<1> QED
    BY <1>5, <1>7, <1>8, <1>9 DEF CaptureInv

LEMMA CaptureInductive == CaptureInv /\ [Next]_vars => CaptureInv'
<1> SUFFICES ASSUME CaptureInv, [Next]_vars PROVE CaptureInv'
    OBVIOUS
<1>1. CASE UNCHANGED vars
    <2>1. UNCHANGED <<bridge, events, adapterVars, overtaken>> /\ BridgeTypeOK' /\ left' \in Budget
        BY <1>1, NowKnown DEF vars, hostVars, BridgeTypeOK, CaptureInv, TypeOK
    <2> QED
        BY <2>1, HostInv
<1>2. CASE Switch
    BY <1>2, SwitchInv
<1>3. CASE ZellijStep
    BY <1>3, HostAppliesInv, SeesModeInv, TicksInv, LoadsInv DEF ZellijStep
<1>4. ASSUME NEW l \in Leases,
             BeginAdmitted(l) \/ Begin(l) \/ Detaches(l) \/ BrokerHears(l) \/ End(l)
      PROVE  CaptureInv'
    BY <1>4, BeginAdmittedInv, BeginTableInv, BeginQueuedInv, BeginConfirmedInv, BeginTimesOutInv,
       BeginTakenBackInv, BrokerMovesInv, EndReleasesInv, EndQueuedInv DEF Begin, End
<1>5. CASE Renews \/ Pump \/ BridgeHandles \/ BridgeHandlesLate \/ AdapterHears \/ AdapterIgnores
    BY <1>5, RenewsInv, PumpInv, BridgeHandlesInv, HearsInv, IgnoresInv
<1>6. CASE \/ ChannelRestarts \/ ClientExpires \/ RequestLost \/ WriteFails \/ Reload
           \/ Suspend \/ BrokerDies
    BY <1>6, ChannelRestartsInv, ClientExpiresInv, RequestLostInv, WriteFailsInv, ReloadInv,
       SuspendInv, BrokerDiesInv
<1>7. CASE Resume \/ BridgeSubscribes \/ BridgeRegisters
    BY <1>7, ResumeInv, SubscribesInv, RegistersInv
<1> QED
    BY <1>1, <1>2, <1>3, <1>4, <1>5, <1>6, <1>7 DEF Next

LEMMA CaptureAlways == Spec => []CaptureInv
BY InitCaptures, CaptureInductive, PTL DEF Spec

(* Plugin, adapter and pipes keep their types through every fault.         *)
THEOREM ZellijCaptureTypes == Spec => []TypeOK
<1>1. CaptureInv => TypeOK
    BY DEF CaptureInv
<1> QED
    BY <1>1, CaptureAlways, PTL

(* A capture the adapter counts as held is held by the plugin, or its      *)
(* CaptureLost is still on the way to the broker, or the broker is ending  *)
(* it; but for a loss that handle_health_event found no session for.       *)
THEOREM LossAlwaysReported == Spec => []LossReported
<1>1. CaptureInv => LossReported
    <2> SUFFICES ASSUME CaptureInv, broker = "up", link = "registered", bridge.registered, ~overtaken,
                        NEW l \in Leases, TableIs("Captured", l), loss[l] # "ignored"
                 PROVE  \/ Owns(bridge.active, {l})
                        \/ \E i \in DOMAIN events : events[i] = [kind |-> "CaptureLost", lease |-> l]
                        \/ loss[l] = "told"
                        \/ call[l] = "detached"
        BY DEF LossReported
    <2>1. HeldOrLost(l)
        BY DEF CaptureInv, Reported, Confirmed, TableIs
    <2> QED
        BY <2>1 DEF HeldOrLost, Elements, Lost
<1> QED
    BY <1>1, CaptureAlways, PTL

-----------------------------------------------------------------------------
(* The user's mode.  What the plugin does is right only relative to the    *)
(* modes it has still to see: s, which Zellij entered, and then t, which   *)
(* Zellij has still to enter.  Locked is at most once among them; the      *)
(* others were restored, or chosen by the user at any moment.              *)

Unlocked(m) == m \in Modes /\ m # Locked

Free(s) == \A i \in DOMAIN s : s[i] # Locked

LockedOnce(s) == \E i \in DOMAIN s : s[i] = Locked /\ \A j \in DOMAIN s \ {i} : s[j] # Locked

Last(s) == s[Len(s)]

AllFree(s, t) == Free(s) /\ Free(t)

LockAhead(s, t) == (LockedOnce(s) /\ Free(t)) \/ (Free(s) /\ LockedOnce(t))

Some(s, t) == s # <<>> \/ t # <<>>

EndsFree(s, t) == IF t = <<>> THEN s # <<>> /\ Last(s) # Locked ELSE Last(t) # Locked

(* Nothing was asked of the host, or all of it was taken back.             *)
Unrequested(b) == b.active = None /\ (b.pending = None \/ ~b.pending.requested)

(* The stages of a capture: an instance that has seen no mode, at rest,    *)
(* the two stages of a restoration, a capture that is requested and one    *)
(* that is held.                                                           *)
Unaware(b, s, t) ==
    Unrequested(b) /\ b.barrier = "none" /\ b.current = None /\ AllFree(s, t) /\ Some(s, t)

AtRest(b, s, t) ==
    /\ b.active = None /\ b.pending = None /\ b.barrier = "none"
    /\ Unlocked(b.current) /\ AllFree(s, t)

Returning(b, s, t) ==
    Unrequested(b) /\ b.barrier = "unobserved" /\ LockAhead(s, t) /\ EndsFree(s, t)

Returned(b, s, t) == Unrequested(b) /\ b.barrier = "observed" /\ AllFree(s, t) /\ Some(s, t)

Locking(b, s, t) ==
    /\ b.active = None /\ b.pending # None /\ b.pending.requested /\ Unlocked(b.pending.prior)
    /\ b.barrier = "none" /\ LockAhead(s, t)

Holding(b, s, t) ==
    /\ b.active # None /\ Unlocked(b.active.prior) /\ b.pending = None
    /\ b.barrier = "none" /\ b.current = Locked /\ AllFree(s, t)

Phase(b, s, t) ==
    \/ Unaware(b, s, t) \/ AtRest(b, s, t) \/ Returning(b, s, t)
    \/ Returned(b, s, t) \/ Locking(b, s, t) \/ Holding(b, s, t)

(* The mode is the last one that was entered, which the plugin has seen or *)
(* is yet to see; what a closed instance asked for does not end Locked.    *)
Follows ==
    IF bridge.loaded
    THEN mode = IF updates = <<>> THEN bridge.current ELSE Last(updates)
    ELSE /\ bridge.pending = None /\ bridge.active = None /\ updates = <<>>
         /\ (IF ops = <<>> THEN mode ELSE Last(ops)) # Locked

Kept ==
    ~overtaken /\ userMode # Locked
      => Follows /\ (bridge.loaded => Phase(bridge, updates, ops))

KeptInv == CaptureInv /\ Kept

-----------------------------------------------------------------------------
(* Modes come and go.                                                       *)

LEMMA NoModes == Free(<<>>) /\ ~LockedOnce(<<>>)
BY DEF Free, LockedOnce

LEMMA Appended ==
    ASSUME NEW s \in Seq(Modes), NEW m \in Modes
    PROVE  /\ Append(s, m) \in Seq(Modes) /\ Append(s, m) # <<>> /\ Last(Append(s, m)) = m
           /\ Append(s, m) = s \o <<m>>
           /\ Free(s) /\ m # Locked => Free(Append(s, m))
           /\ Free(s) /\ m = Locked => LockedOnce(Append(s, m))
           /\ LockedOnce(s) /\ m # Locked => LockedOnce(Append(s, m))
<1> DEFINE a == Append(s, m)
<1>1. /\ a \in Seq(Modes) /\ a # <<>> /\ Len(a) = Len(s) + 1
      /\ (\A i \in 1..Len(s) : a[i] = s[i]) /\ a[Len(s) + 1] = m /\ Len(s) \in Nat
    BY AppendProperties, LenProperties
<1>2. DOMAIN a = 1..(Len(s) + 1) /\ DOMAIN s = 1..Len(s)
    BY <1>1, LenProperties
<1>3. a = s \o <<m>>
    BY AppendIsConcat
<1> HIDE DEF a
<1>4. Free(s) /\ m # Locked => Free(a)
    BY <1>1, <1>2 DEF Free
<1>5. Free(s) /\ m = Locked => LockedOnce(a)
    <2> SUFFICES ASSUME Free(s), m = Locked PROVE LockedOnce(a)
        OBVIOUS
    <2>1. Len(s) + 1 \in DOMAIN a /\ \A j \in DOMAIN a \ {Len(s) + 1} : j \in DOMAIN s
        BY <1>1, <1>2
    <2>2. \A j \in DOMAIN a \ {Len(s) + 1} : a[j] # Locked
        BY <1>1, <1>2, <2>1 DEF Free
    <2> QED
        BY <1>1, <2>1, <2>2 DEF LockedOnce
<1>6. LockedOnce(s) /\ m # Locked => LockedOnce(a)
    <2> SUFFICES ASSUME LockedOnce(s), m # Locked PROVE LockedOnce(a)
        OBVIOUS
    <2>1. PICK i \in 1..Len(s) : s[i] = Locked /\ \A j \in 1..Len(s) \ {i} : s[j] # Locked
        BY <1>2 DEF LockedOnce
    <2>2. i \in DOMAIN a /\ a[i] = Locked
        BY <1>1, <1>2, <2>1
    <2>3. ASSUME NEW j \in DOMAIN a \ {i} PROVE a[j] # Locked
        <3>1. j \in 1..Len(s) \ {i} \/ j = Len(s) + 1
            BY <1>1, <1>2, <2>3
        <3> QED
            BY <1>1, <2>1, <3>1
    <2> QED
        BY <2>2, <2>3 DEF LockedOnce
<1> QED
    BY <1>1, <1>3, <1>4, <1>5, <1>6 DEF a, Last

LEMMA Shifted ==
    ASSUME NEW s \in Seq(Modes), s # <<>>
    PROVE  /\ Head(s) \in Modes /\ Tail(s) \in Seq(Modes)
           /\ Free(s) => Head(s) # Locked /\ Free(Tail(s))
           /\ LockedOnce(s) => IF Head(s) = Locked THEN Free(Tail(s)) ELSE LockedOnce(Tail(s))
           /\ Last(s) = IF Tail(s) = <<>> THEN Head(s) ELSE Last(Tail(s))
<1> DEFINE r == Tail(s)
<1>1. /\ r \in Seq(Modes) /\ Len(r) = Len(s) - 1 /\ \A i \in 1..Len(r) : r[i] = s[i + 1]
      /\ Head(s) = s[1] /\ Head(s) \in Modes /\ Len(s) \in Nat \ {0}
    BY HeadTailProperties, EmptySeq, LenProperties
<1>2. DOMAIN r = 1..(Len(s) - 1) /\ DOMAIN s = 1..Len(s)
    BY <1>1, LenProperties
<1> HIDE DEF r
<1>3. Free(s) => Head(s) # Locked /\ Free(r)
    BY <1>1, <1>2 DEF Free
<1>4. ASSUME LockedOnce(s) PROVE IF Head(s) = Locked THEN Free(r) ELSE LockedOnce(r)
    <2>1. PICK i \in 1..Len(s) : s[i] = Locked /\ \A j \in 1..Len(s) \ {i} : s[j] # Locked
        BY <1>2, <1>4 DEF LockedOnce
    <2>2. CASE Head(s) = Locked
        <3>1. i = 1
            BY <1>1, <2>1, <2>2
        <3>2. ASSUME NEW j \in DOMAIN r PROVE r[j] # Locked
            <4>1. j + 1 \in 1..Len(s) \ {i} /\ r[j] = s[j + 1]
                BY <1>1, <1>2, <3>1, <3>2
            <4> QED
                BY <2>1, <4>1
        <3> QED
            BY <2>2, <3>2 DEF Free
    <2>3. CASE Head(s) # Locked
        <3>1. i # 1
            BY <1>1, <2>1, <2>3
        <3>2. i - 1 \in DOMAIN r /\ r[i - 1] = Locked
            BY <1>1, <1>2, <2>1, <3>1
        <3>3. ASSUME NEW j \in DOMAIN r \ {i - 1} PROVE r[j] # Locked
            <4>1. j + 1 \in 1..Len(s) \ {i} /\ r[j] = s[j + 1]
                BY <1>1, <1>2, <3>3
            <4> QED
                BY <2>1, <4>1
        <3> QED
            BY <2>3, <3>2, <3>3 DEF LockedOnce
    <2> QED
        BY <2>2, <2>3
<1>5. Last(s) = IF r = <<>> THEN Head(s) ELSE Last(r)
    <2>1. CASE r = <<>>
        <3>1. Len(r) = 0
            BY <2>1, EmptySeq
        <3> QED
            BY <1>1, <2>1, <3>1 DEF Last
    <2>2. CASE r # <<>>
        <3>1. Len(r) \in 1..Len(r)
            BY <1>1, <2>2, EmptySeq
        <3> QED
            BY <1>1, <2>2, <3>1 DEF Last
    <2> QED
        BY <2>1, <2>2
<1> QED
    BY <1>1, <1>3, <1>4, <1>5 DEF r

(* The plugin asks Zellij for one more mode.                               *)
LEMMA Asked ==
    ASSUME NEW s \in Seq(Modes), NEW t \in Seq(Modes), NEW m \in Modes
    PROVE  /\ AllFree(s, t) /\ m # Locked => AllFree(s, t \o <<m>>) /\ Some(s, t \o <<m>>)
           /\ AllFree(s, t) /\ m = Locked => LockAhead(s, t \o <<m>>)
           /\ LockAhead(s, t) /\ m # Locked
                => LockAhead(s, t \o <<m>>) /\ EndsFree(s, t \o <<m>>)
<1> DEFINE a == t \o <<m>>
<1>1. /\ a # <<>> /\ Last(a) = m
      /\ Free(t) /\ m # Locked => Free(a)
      /\ Free(t) /\ m = Locked => LockedOnce(a)
      /\ LockedOnce(t) /\ m # Locked => LockedOnce(a)
    <2>1. a = Append(t, m)
        BY Appended
    <2> HIDE DEF a
    <2> QED
        BY <2>1, Appended
<1> HIDE DEF a
<1>2. AllFree(s, t) /\ m # Locked => AllFree(s, a) /\ Some(s, a)
    BY <1>1 DEF AllFree, Some
<1>3. AllFree(s, t) /\ m = Locked => LockAhead(s, a)
    BY <1>1 DEF AllFree, LockAhead
<1>4. LockAhead(s, t) /\ m # Locked => LockAhead(s, a) /\ EndsFree(s, a)
    BY <1>1 DEF LockAhead, EndsFree
<1> QED
    BY <1>2, <1>3, <1>4 DEF a

(* The user chooses another mode than Locked.                              *)
LEMMA Chosen ==
    ASSUME NEW s \in Seq(Modes), NEW t \in Seq(Modes), NEW m, Unlocked(m)
    PROVE  /\ AllFree(s, t) => AllFree(Append(s, m), t)
           /\ LockAhead(s, t) => LockAhead(Append(s, m), t)
           /\ EndsFree(s, t) => EndsFree(Append(s, m), t)
           /\ Some(Append(s, m), t)
BY Appended DEF AllFree, LockAhead, EndsFree, Some, Unlocked

(* Zellij enters the first of the modes it was asked for.                  *)
LEMMA Entered ==
    ASSUME NEW s \in Seq(Modes), NEW t \in Seq(Modes), t # <<>>
    PROVE  /\ AllFree(s, t) => AllFree(Append(s, Head(t)), Tail(t))
           /\ LockAhead(s, t) => LockAhead(Append(s, Head(t)), Tail(t))
           /\ EndsFree(s, t) => EndsFree(Append(s, Head(t)), Tail(t))
           /\ Some(Append(s, Head(t)), Tail(t))
<1> DEFINE h == Head(t)  r == Tail(t)  a == Append(s, h)
<1>1. /\ h \in Modes /\ r \in Seq(Modes)
      /\ Free(t) => h # Locked /\ Free(r)
      /\ LockedOnce(t) => IF h = Locked THEN Free(r) ELSE LockedOnce(r)
      /\ Last(t) = IF r = <<>> THEN h ELSE Last(r)
    BY Shifted
<1>2. /\ a # <<>> /\ Last(a) = h
      /\ Free(s) /\ h # Locked => Free(a)
      /\ Free(s) /\ h = Locked => LockedOnce(a)
      /\ LockedOnce(s) /\ h # Locked => LockedOnce(a)
    BY <1>1, Appended
<1> HIDE DEF h, r, a
<1>3. AllFree(s, t) => AllFree(a, r)
    BY <1>1, <1>2 DEF AllFree
<1>4. LockAhead(s, t) => LockAhead(a, r)
    BY <1>1, <1>2 DEF LockAhead
<1>5. EndsFree(s, t) => EndsFree(a, r)
    BY <1>1, <1>2 DEF EndsFree
<1>6. Some(a, r)
    BY <1>2 DEF Some
<1> QED
    BY <1>3, <1>4, <1>5, <1>6 DEF h, r, a

(* The plugin sees the first of the modes that were entered.               *)
LEMMA Shown ==
    ASSUME NEW s \in Seq(Modes), NEW t \in Seq(Modes), s # <<>>
    PROVE  /\ AllFree(s, t) => Head(s) # Locked /\ AllFree(Tail(s), t)
           /\ LockAhead(s, t) => IF Head(s) = Locked THEN AllFree(Tail(s), t)
                                 ELSE LockAhead(Tail(s), t)
           /\ EndsFree(s, t) /\ Some(Tail(s), t) => EndsFree(Tail(s), t)
           /\ EndsFree(s, t) /\ Head(s) = Locked => Some(Tail(s), t)
           /\ LockAhead(s, t) /\ Head(s) # Locked => Some(Tail(s), t)
BY Shifted, NoModes DEF AllFree, LockAhead, EndsFree, Some

-----------------------------------------------------------------------------
(* Each handler leads from phase to phase.                                  *)

(* Phases do not depend on the registration or the time that is left.      *)
LEMMA PhaseSame ==
    ASSUME NEW b, NEW c, NEW s, NEW t, Phase(b, s, t), c.current = b.current,
           c.pending = b.pending, c.barrier = b.barrier, c.active = None <=> b.active = None,
           b.active # None => c.active.prior = b.active.prior
    PROVE  Phase(c, s, t)
BY DEF Phase, Unaware, AtRest, Returning, Returned, Locking, Holding, Unrequested

LEMMA PhaseChosen ==
    ASSUME NEW b, NEW s \in Seq(Modes), NEW t \in Seq(Modes), Phase(b, s, t), NEW m, Unlocked(m)
    PROVE  Phase(b, Append(s, m), t)
<1> DEFINE a == Append(s, m)
<1>1. /\ AllFree(s, t) => AllFree(a, t)
      /\ LockAhead(s, t) => LockAhead(a, t)
      /\ EndsFree(s, t) => EndsFree(a, t)
      /\ Some(a, t)
    BY Chosen
<1> HIDE DEF a
<1>2. Phase(b, a, t)
    BY <1>1 DEF Phase, Unaware, AtRest, Returning, Returned, Locking, Holding
<1> QED
    BY <1>2 DEF a

LEMMA PhaseEntered ==
    ASSUME NEW b, NEW s \in Seq(Modes), NEW t \in Seq(Modes), Phase(b, s, t), t # <<>>
    PROVE  Phase(b, Append(s, Head(t)), Tail(t))
<1> DEFINE a == Append(s, Head(t))  r == Tail(t)
<1>1. /\ AllFree(s, t) => AllFree(a, r)
      /\ LockAhead(s, t) => LockAhead(a, r)
      /\ EndsFree(s, t) => EndsFree(a, r)
      /\ Some(a, r)
    BY Entered
<1> HIDE DEF a, r
<1>2. Phase(b, a, r)
    BY <1>1 DEF Phase, Unaware, AtRest, Returning, Returned, Locking, Holding
<1> QED
    BY <1>2 DEF a, r

(* cancel_capture_for_restore *)
LEMMA PhaseCancelled ==
    ASSUME NEW b, Known(b), NEW s \in Seq(Modes), NEW t \in Seq(Modes), Phase(b, s, t), NEW L
    PROVE  Phase(Cancelled(b, L), s, t \o RestoreOps(b, L))
<1> DEFINE c == Cancelled(b, L)
<1>1. /\ c.current = b.current
      /\ c.pending = IF Owns(b.pending, L) THEN None ELSE b.pending
      /\ c.active = IF Owns(b.active, L) THEN None ELSE b.active
      /\ c.barrier = IF Owns(b.active, L) /\ b.current = Locked /\ b.active.prior # Locked
                     THEN "observed"
                     ELSE IF Owns(b.pending, L) /\ b.pending.requested THEN "unobserved"
                     ELSE b.barrier
    BY CancelledKnown
<1> HIDE DEF c
<1>2. ASSUME RestoreOps(b, L) = <<>> PROVE t \o RestoreOps(b, L) = t
    BY <1>2, ConcatEmptySeq
<1>3. CASE Unrequested(b)
    <2>1. RestoreOps(b, L) = <<>>
        BY <1>3 DEF RestoreOps, Unrequested, Owns
    <2>2. c.active = None /\ c.barrier = b.barrier /\ c.pending \in {None, b.pending} /\ Unrequested(c)
        BY <1>1, <1>3 DEF Unrequested, Owns
    <2>3. Phase(c, s, t)
        BY <1>1, <1>3, <2>2
           DEF Phase, Unaware, AtRest, Returning, Returned, Locking, Holding, Unrequested
    <2> QED
        BY <1>2, <2>1, <2>3 DEF c
<1>4. CASE b.active = None /\ b.pending # None /\ b.pending.requested
    <2>1. Unlocked(b.pending.prior) /\ b.barrier = "none" /\ LockAhead(s, t)
        BY <1>4 DEF Phase, Unaware, AtRest, Returning, Returned, Locking, Holding, Unrequested
    <2>2. CASE Owns(b.pending, L)
        <3>1. RestoreOps(b, L) = <<b.pending.prior>>
            BY <1>4, <2>2 DEF RestoreOps, Owns
        <3>2. LockAhead(s, t \o RestoreOps(b, L)) /\ EndsFree(s, t \o RestoreOps(b, L))
            BY <2>1, <3>1, Asked DEF Unlocked
        <3>3. c.active = None /\ c.pending = None /\ c.barrier = "unobserved"
            BY <1>1, <1>4, <2>2 DEF Owns
        <3> QED
            BY <3>2, <3>3 DEF Phase, Returning, Unrequested, c
    <2>3. CASE ~Owns(b.pending, L)
        <3>1. RestoreOps(b, L) = <<>>
            BY <1>4, <2>3 DEF RestoreOps, Owns
        <3>2. c.active = None /\ c.pending = b.pending /\ c.barrier = "none"
            BY <1>1, <1>4, <2>1, <2>3 DEF Owns
        <3>3. Phase(c, s, t)
            BY <1>4, <2>1, <3>2 DEF Phase, Locking
        <3> QED
            BY <1>2, <3>1, <3>3 DEF c
    <2> QED
        BY <2>2, <2>3
<1>5. CASE b.active # None
    <2>1. /\ Unlocked(b.active.prior) /\ b.pending = None /\ b.barrier = "none"
          /\ b.current = Locked /\ AllFree(s, t)
        BY <1>5 DEF Phase, Unaware, AtRest, Returning, Returned, Locking, Holding, Unrequested
    <2>2. CASE Owns(b.active, L)
        <3>1. RestoreOps(b, L) = <<b.active.prior>>
            BY <2>1, <2>2 DEF RestoreOps, Owns
        <3>2. AllFree(s, t \o RestoreOps(b, L)) /\ Some(s, t \o RestoreOps(b, L))
            BY <2>1, <3>1, Asked DEF Unlocked
        <3>3. c.active = None /\ c.pending = None /\ c.barrier = "observed"
            BY <1>1, <2>1, <2>2 DEF Owns, Unlocked
        <3> QED
            BY <3>2, <3>3 DEF Phase, Returned, Unrequested, c
    <2>3. CASE ~Owns(b.active, L)
        <3>1. RestoreOps(b, L) = <<>>
            BY <2>1, <2>3 DEF RestoreOps, Owns
        <3>2. c.active = b.active /\ c.pending = None /\ c.barrier = "none" /\ c.current = Locked
            BY <1>1, <2>1, <2>3 DEF Owns
        <3>3. Phase(c, s, t)
            BY <1>5, <2>1, <3>2 DEF Phase, Holding
        <3> QED
            BY <1>2, <3>1, <3>3 DEF c
    <2> QED
        BY <2>2, <2>3
<1> QED
    BY <1>3, <1>4, <1>5 DEF Unrequested

(* begin_capture, when nothing else is held.                               *)
LEMMA PhaseBegan ==
    ASSUME NEW b, Known(b), NEW s \in Seq(Modes), NEW t \in Seq(Modes), Phase(b, s, t),
           NEW l \in Leases, Retried(b, l) \/ (b.pending = None /\ b.active = None)
    PROVE  Phase(Began(b, l), s, t \o BeganOps(b, l))
<1> DEFINE c == Began(b, l)
<1>1. ASSUME BeganOps(b, l) = <<>> PROVE t \o BeganOps(b, l) = t
    BY <1>1, ConcatEmptySeq
<1>2. CASE Retried(b, l)
    <2>1. c = b /\ BeganOps(b, l) = <<>>
        BY <1>2, BeganKnown DEF BeganOps
    <2> QED
        BY <1>1, <2>1
<1>3. CASE ~Retried(b, l)
    <2>1. b.pending = None /\ b.active = None /\ Unrequested(b)
        BY <1>3 DEF Unrequested
    <2>2. b.barrier = "none" => Unaware(b, s, t) \/ AtRest(b, s, t)
        BY <2>1 DEF Phase, Returning, Returned, Locking, Holding
    <2>3. ~AlreadyLocked(b)
        <3>1. Locked # None
            BY BridgeAssumption, LockedRequest
        <3> QED
            BY <2>2, <3>1 DEF Unaware, AtRest, Unlocked, AlreadyLocked
    <2>4. /\ c.current = b.current /\ c.barrier = b.barrier /\ c.active = None
          /\ c.pending = [lease |-> l, prior |-> b.current, requested |-> CanRequest(b)]
        BY <1>3, <2>1, <2>3, BeganKnown
    <2> HIDE DEF c
    <2>5. /\ b.current \in Modes \cup {None} /\ CanRequest(b) \in BOOLEAN
          /\ c.pending.prior = b.current /\ c.pending.requested = CanRequest(b)
        BY <2>4, BridgeFields DEF Known, CanRequest
    <2>6. c.pending # None
        BY <2>4, <2>5, SlotAssumption DEF Pending
    <2>7. CASE CanRequest(b)
        <3>1. b.barrier = "none" /\ Unlocked(b.current) /\ AllFree(s, t)
            BY <2>2, <2>7 DEF CanRequest, Unaware, AtRest
        <3>2. BeganOps(b, l) = <<Locked>>
            BY <1>3, <2>7, <3>1 DEF BeganOps, Unlocked
        <3>3. LockAhead(s, t \o BeganOps(b, l))
            BY <3>1, <3>2, LockedRequest, Asked
        <3> QED
            BY <2>4, <2>5, <2>6, <2>7, <3>1, <3>3 DEF Phase, Locking, c
    <2>8. CASE ~CanRequest(b)
        <3>1. BeganOps(b, l) = <<>>
            BY <2>8 DEF BeganOps
        <3>2. Unrequested(c)
            BY <2>4, <2>5, <2>8 DEF Unrequested
        <3>3. Unaware(b, s, t) \/ Returning(b, s, t) \/ Returned(b, s, t)
            <4>1. None \notin Modes
                BY BridgeAssumption
            <4>2. ~AtRest(b, s, t)
                BY <2>8, <4>1 DEF AtRest, Unlocked, CanRequest
            <4> QED
                BY <2>1, <4>2 DEF Phase, Locking, Holding
        <3>4. Phase(c, s, t)
            BY <2>4, <3>2, <3>3 DEF Phase, Unaware, Returning, Returned
        <3> QED
            BY <1>1, <3>1, <3>4 DEF c
    <2> QED
        BY <2>7, <2>8
<1> QED
    BY <1>2, <1>3

(* on_mode_update sees the first of the modes that Zellij entered.         *)
LEMMA PhaseSeen ==
    ASSUME NEW b, Known(b), NEW s \in Seq(Modes), NEW t \in Seq(Modes), s # <<>>, Phase(b, s, t)
    PROVE  Phase(ModeSeen(b, Head(s)), Tail(s), t \o ModeSeenOps(b, Head(s)))
<1> DEFINE m == Head(s)  r == Tail(s)  c == ModeSeen(b, m)  R == ModeSeenOps(b, m)
<1>1. /\ m \in Modes /\ r \in Seq(Modes) /\ Locked \in Modes /\ None \notin Modes
      /\ AllFree(s, t) => m # Locked /\ AllFree(r, t)
      /\ LockAhead(s, t) => IF m = Locked THEN AllFree(r, t) ELSE LockAhead(r, t)
      /\ EndsFree(s, t) /\ Some(r, t) => EndsFree(r, t)
      /\ EndsFree(s, t) /\ m = Locked => Some(r, t)
      /\ LockAhead(s, t) /\ m # Locked => Some(r, t)
    BY Shifted, Shown, LockedRequest, BridgeAssumption
<1> HIDE DEF m, r
<1>2. /\ c.current = m /\ c.barrier = Observed(b, m).barrier
      /\ Swallowed(b, m) => c.pending = b.pending /\ c.active = b.active
      /\ ~Swallowed(b, m) /\ Activates(b, m)
            => /\ c.pending = None /\ c.active # None
               /\ b.pending.prior # None => c.active.prior = b.pending.prior
      /\ ~Swallowed(b, m) /\ m # Locked
            => /\ c.active = None
               /\ b.pending = None <=> c.pending = None
               /\ b.pending # None => c.pending.prior = m /\ c.pending.requested
    BY <1>1, ModeSeenKnown
<1>3. c.barrier = IF b.barrier = "none" THEN "none"
                  ELSE IF m = Locked THEN "observed"
                  ELSE IF b.barrier = "observed" THEN "none" ELSE b.barrier
    BY <1>2, BridgeFields DEF Observed, Known, Bridge
<1> HIDE DEF c
<1>4. ASSUME R = <<>>, Phase(c, r, t) PROVE Phase(c, r, t \o R)
    BY <1>4, ConcatEmptySeq
<1>5. R = IF ~Swallowed(b, m) /\ m # Locked /\ b.pending # None /\ ~b.pending.requested
          THEN <<Locked>> ELSE <<>>
    BY DEF ModeSeenOps
<1> HIDE DEF R
<1> SUFFICES Phase(c, r, t \o R)
    BY DEF c, r, m, R
<1>6. CASE Returning(b, s, t)
    <2>1. Swallowed(b, m) /\ R = <<>> /\ Unrequested(c)
        BY <1>2, <1>5, <1>6 DEF Swallowed, Returning, Unrequested
    <2>2. CASE m = Locked
        <3>1. Returned(c, r, t)
            BY <1>1, <1>3, <1>6, <2>1, <2>2 DEF Returning, Returned
        <3> QED
            BY <1>4, <2>1, <3>1 DEF Phase
    <2>3. CASE m # Locked
        <3>1. Returning(c, r, t)
            BY <1>1, <1>3, <1>6, <2>1, <2>3 DEF Returning
        <3> QED
            BY <1>4, <2>1, <3>1 DEF Phase
    <2> QED
        BY <2>2, <2>3
<1>7. CASE Unaware(b, s, t) \/ AtRest(b, s, t) \/ Returned(b, s, t) \/ Holding(b, s, t)
    <2>1. AllFree(s, t) /\ b.barrier # "unobserved" /\ (b.pending = None \/ ~b.pending.requested)
        BY <1>7 DEF Unaware, AtRest, Returned, Holding, Unrequested
    <2>2. Unlocked(m) /\ AllFree(r, t) /\ ~Swallowed(b, m)
        BY <1>1, <2>1 DEF Unlocked, Swallowed
    <2>3. c.active = None /\ c.barrier = "none" /\ c.current = m
        BY <1>2, <1>3, <2>1, <2>2, BridgeFields DEF Unlocked, Known
    <2>4. CASE b.pending = None
        <3>1. AtRest(c, r, t) /\ R = <<>>
            BY <1>2, <1>5, <2>2, <2>3, <2>4 DEF AtRest, Unlocked
        <3> QED
            BY <1>4, <3>1 DEF Phase
    <2>5. CASE b.pending # None
        <3>1. R = <<Locked>>
            BY <1>5, <2>1, <2>2, <2>5 DEF Unlocked
        <3>2. LockAhead(r, t \o <<Locked>>)
            BY <1>1, <2>2, Asked
        <3>3. Locking(c, r, t \o <<Locked>>)
            BY <1>2, <2>2, <2>3, <2>5, <3>2 DEF Locking, Unlocked
        <3> QED
            BY <3>1, <3>3 DEF Phase
    <2> QED
        BY <2>4, <2>5
<1>8. CASE Locking(b, s, t)
    <2>1. ~Swallowed(b, m) /\ R = <<>> /\ c.barrier = "none"
        BY <1>3, <1>5, <1>8 DEF Locking, Swallowed
    <2>2. CASE m = Locked
        <3>1. c.pending = None /\ c.active # None /\ c.active.prior = b.pending.prior
            BY <1>1, <1>2, <1>8, <2>1, <2>2 DEF Locking, Activates, Unlocked
        <3>2. Holding(c, r, t)
            BY <1>1, <1>2, <1>8, <2>1, <2>2, <3>1 DEF Locking, Holding
        <3> QED
            BY <1>4, <2>1, <3>2 DEF Phase
    <2>3. CASE m # Locked
        <3>1. Locking(c, r, t)
            BY <1>1, <1>2, <1>8, <2>1, <2>3 DEF Locking, Unlocked
        <3> QED
            BY <1>4, <2>1, <3>1 DEF Phase
    <2> QED
        BY <2>2, <2>3
<1>9. \/ Returning(b, s, t) \/ Locking(b, s, t)
      \/ Unaware(b, s, t) \/ AtRest(b, s, t) \/ Returned(b, s, t) \/ Holding(b, s, t)
    BY DEF Phase
<1> QED
    BY <1>6, <1>7, <1>8, <1>9

-----------------------------------------------------------------------------
(* Each action keeps it.                                                    *)

LEMMA KeptNow ==
    ASSUME KeptInv, ~overtaken, userMode # Locked
    PROVE  /\ Known(bridge) /\ bridge \in Bridge /\ userMode \in Modes /\ mode \in Modes
           /\ updates \in Seq(Modes) /\ ops \in Seq(Modes)
           /\ Follows /\ (bridge.loaded => Phase(bridge, updates, ops))
BY NowKnown DEF KeptInv, Kept, BridgeTypeOK

(* What leaves plugin and modes alone.                                     *)
LEMMA KeptSame ==
    ASSUME KeptInv, UNCHANGED <<hostVars, bridge, overtaken>>
    PROVE  Kept'
<1>1. UNCHANGED <<mode, ops, updates, userMode, bridge, overtaken>>
    BY DEF hostVars
<1> QED
    BY <1>1 DEF KeptInv, Kept, Follows

(* A handler of the plugin that asks the host for R and shows no mode.     *)
LEMMA KeptAsks ==
    ASSUME KeptInv, UNCHANGED <<mode, updates, userMode>>, bridge.loaded, bridge'.loaded,
           overtaken => overtaken', bridge'.current = bridge.current,
           ~overtaken' /\ userMode # Locked => Phase(bridge', updates, ops')
    PROVE  Kept'
<1> SUFFICES ASSUME ~overtaken', userMode # Locked
             PROVE  Follows' /\ Phase(bridge', updates', ops')
    BY DEF Kept
<1>1. Follows'
    BY KeptNow DEF Follows
<1> QED
    BY <1>1

LEMMA KeptSwitch ==
    ASSUME KeptInv, Switch, userMode = Locked => userMode' = Locked
    PROVE  Kept'
<1>1. /\ mode' = userMode' /\ mode' \in Modes /\ overtaken' = overtaken
      /\ updates' = IF bridge.loaded THEN Append(updates, mode') ELSE updates
      /\ UNCHANGED <<ops, bridge>>
    BY DEF Switch, UserSwitches
<1> SUFFICES ASSUME ~overtaken, userMode # Locked, Unlocked(mode')
             PROVE  Follows' /\ (bridge'.loaded => Phase(bridge', updates', ops'))
    BY <1>1 DEF Kept, Unlocked
<1>2. CASE bridge.loaded
    <2>1. updates' # <<>> /\ Last(updates') = mode'
        BY <1>1, <1>2, KeptNow, Appended
    <2>2. Phase(bridge, Append(updates, mode'), ops)
        BY <1>2, KeptNow, PhaseChosen
    <2> QED
        BY <1>1, <1>2, <2>1, <2>2 DEF Follows
<1>3. CASE ~bridge.loaded
    BY <1>1, <1>3, KeptNow DEF Follows, Unlocked
<1> QED
    BY <1>2, <1>3

LEMMA KeptHostApplies ==
    ASSUME KeptInv, HostApplies, overtaken' = overtaken
    PROVE  Kept'
<1>1. /\ ops # <<>> /\ mode' = Head(ops) /\ ops' = Tail(ops) /\ bridge' = bridge
      /\ updates' = IF bridge.loaded THEN Append(updates, Head(ops)) ELSE updates
      /\ userMode' = userMode
    BY DEF HostApplies
<1> SUFFICES ASSUME ~overtaken, userMode # Locked
             PROVE  Follows' /\ (bridge'.loaded => Phase(bridge', updates', ops'))
    BY <1>1 DEF Kept
<1>2. Head(ops) \in Modes /\ Last(ops) = IF Tail(ops) = <<>> THEN Head(ops) ELSE Last(Tail(ops))
    BY <1>1, KeptNow, Shifted
<1>3. CASE bridge.loaded
    <2>1. updates' # <<>> /\ Last(updates') = mode'
        BY <1>1, <1>2, <1>3, KeptNow, Appended
    <2>2. Phase(bridge, Append(updates, Head(ops)), Tail(ops))
        BY <1>1, <1>3, KeptNow, PhaseEntered
    <2> QED
        BY <1>1, <1>3, <2>1, <2>2 DEF Follows
<1>4. CASE ~bridge.loaded
    BY <1>1, <1>2, <1>4, KeptNow DEF Follows
<1> QED
    BY <1>3, <1>4

LEMMA KeptSeesMode ==
    ASSUME KeptInv, BridgeSeesMode, overtaken' = overtaken
    PROVE  Kept'
<1>1. /\ bridge.loaded /\ updates # <<>> /\ updates' = Tail(updates)
      /\ bridge' = ModeSeen(bridge, Head(updates))
      /\ ops' = ops \o ModeSeenOps(bridge, Head(updates))
      /\ UNCHANGED <<mode, userMode>>
    BY DEF BridgeSeesMode
<1> SUFFICES ASSUME ~overtaken, userMode # Locked
             PROVE  Follows' /\ Phase(bridge', updates', ops')
    BY <1>1 DEF Kept
<1>2. /\ Head(updates) \in Modes
      /\ Last(updates) = IF Tail(updates) = <<>> THEN Head(updates) ELSE Last(Tail(updates))
    BY <1>1, KeptNow, Shifted
<1>3. bridge'.current = Head(updates) /\ bridge'.loaded
    BY <1>1, <1>2, KeptNow, ModeSeenKnown DEF Same
<1>4. Follows'
    BY <1>1, <1>2, <1>3, KeptNow DEF Follows
<1>5. Phase(ModeSeen(bridge, Head(updates)), Tail(updates), ops \o ModeSeenOps(bridge, Head(updates)))
    BY <1>1, KeptNow, PhaseSeen
<1> QED
    BY <1>1, <1>4, <1>5

(* A capture is given up: the restoration follows what is coming.          *)
LEMMA KeptCancels ==
    ASSUME KeptInv, UNCHANGED <<mode, updates, userMode, overtaken>>, bridge.loaded, NEW L,
           bridge' = Cancelled(bridge, L), ops' = ops \o RestoreOps(bridge, L)
    PROVE  Kept'
<1>1. bridge'.loaded /\ bridge'.current = bridge.current
    BY NowKnown, CancelledKnown DEF KeptInv, Same
<1>2. ~overtaken' /\ userMode # Locked => Phase(bridge', updates, ops')
    BY KeptNow, PhaseCancelled
<1> QED
    BY <1>1, <1>2, KeptAsks

(* Lease or registration change, and nothing is asked of the host.         *)
LEMMA KeptSlots ==
    ASSUME KeptInv, UNCHANGED <<mode, updates, userMode, ops, overtaken>>, bridge.loaded, bridge'.loaded,
           bridge'.current = bridge.current, bridge'.pending = bridge.pending,
           bridge'.barrier = bridge.barrier, bridge'.active = None <=> bridge.active = None,
           bridge.active # None => bridge'.active.prior = bridge.active.prior
    PROVE  Kept'
<1>1. ~overtaken' /\ userMode # Locked => Phase(bridge', updates, ops')
    BY KeptNow, PhaseSame
<1> QED
    BY <1>1, KeptAsks

LEMMA TicksLeft ==
    ASSUME KeptInv, bridge.active # None, NEW n \in 1..LeaseTicks,
           bridge' = [bridge EXCEPT !.active.ticks = n]
    PROVE  /\ bridge'.loaded = bridge.loaded /\ bridge'.current = bridge.current
           /\ bridge'.pending = bridge.pending /\ bridge'.barrier = bridge.barrier
           /\ bridge'.active # None /\ bridge'.active.prior = bridge.active.prior
<1>1. bridge \in Bridge /\ bridge.active \in Active
    BY NowKnown, BridgeFields DEF KeptInv
<1>2. bridge'.active = [bridge.active EXCEPT !.ticks = n]
    BY <1>1 DEF Bridge
<1>3. bridge'.active \in Active
    BY <1>1, <1>2 DEF Active
<1> QED
    BY <1>1, <1>3, SlotAssumption DEF Bridge, Active

LEMMA KeptTicks ==
    ASSUME KeptInv, BridgeTicks, overtaken' = overtaken
    PROVE  Kept'
<1>1. bridge.loaded /\ bridge.active # None /\ UNCHANGED <<mode, updates, userMode>>
    BY DEF BridgeTicks
<1>2. CASE Expires(bridge)
    <2>1. /\ bridge' = Cancelled(bridge, {bridge.active.lease})
          /\ ops' = ops \o RestoreOps(bridge, {bridge.active.lease})
        BY <1>2 DEF BridgeTicks
    <2> QED
        BY <1>1, <2>1, KeptCancels
<1>3. CASE ~Expires(bridge)
    <2>1. bridge' = [bridge EXCEPT !.active.ticks = bridge.active.ticks - 1] /\ ops' = ops
        BY <1>3 DEF BridgeTicks
    <2>2. bridge.active.ticks - 1 \in 1..LeaseTicks
        BY <1>1, <1>3, NowKnown, SlotFields, BridgeAssumption DEF KeptInv, Expires
    <2>3. /\ bridge'.loaded /\ bridge'.current = bridge.current
          /\ bridge'.pending = bridge.pending /\ bridge'.barrier = bridge.barrier
          /\ bridge'.active # None /\ bridge'.active.prior = bridge.active.prior
        BY <1>1, <2>1, <2>2, TicksLeft
    <2> QED
        BY <1>1, <2>1, <2>3, KeptSlots
<1> QED
    BY <1>2, <1>3

LEMMA KeptLoads ==
    ASSUME KeptInv, BridgeLoads, overtaken' = overtaken
    PROVE  Kept'
<1>1. /\ ~bridge.loaded /\ ops = <<>> /\ ops' = <<>> /\ updates' = <<mode>> /\ bridge' = FreshBridge
      /\ UNCHANGED <<mode, userMode>>
    BY DEF BridgeLoads
<1> SUFFICES ASSUME ~overtaken, userMode # Locked
             PROVE  Follows' /\ Phase(bridge', updates', ops')
    BY <1>1 DEF Kept
<1>2. mode # Locked
    BY <1>1, KeptNow DEF Follows
<1>3. /\ bridge'.active = None /\ bridge'.pending = None /\ bridge'.barrier = "none"
      /\ bridge'.current = None /\ bridge'.loaded
    BY <1>1 DEF FreshBridge
<1>4. updates' # <<>> /\ Last(updates') = mode /\ Free(updates') /\ Free(ops')
    BY <1>1, <1>2 DEF Last, Free
<1>5. Follows'
    BY <1>1, <1>3, <1>4 DEF Follows
<1>6. Phase(bridge', updates', ops')
    BY <1>3, <1>4 DEF Phase, Unaware, Unrequested, AllFree, Some
<1> QED
    BY <1>5, <1>6

(* on_before_close: what is coming does not end with Locked.               *)
LEMMA KeptCloses ==
    ASSUME KeptInv, BridgeCloses, overtaken' = overtaken
    PROVE  Kept'
<1> DEFINE c == Cancelled(bridge, Leases)
<1>1. /\ bridge.loaded /\ ops' = ops \o RestoreOps(bridge, Leases) /\ updates' = <<>>
      /\ bridge' = [FreshBridge EXCEPT !.loaded = FALSE]
      /\ UNCHANGED <<mode, userMode>>
    BY DEF BridgeCloses
<1>2. ~bridge'.loaded /\ bridge'.pending = None /\ bridge'.active = None
    BY <1>1 DEF FreshBridge
<1> SUFFICES ASSUME ~overtaken, userMode # Locked
             PROVE  (IF ops' = <<>> THEN mode ELSE Last(ops')) # Locked
    BY <1>1, <1>2 DEF Kept, Follows
<1>3. Phase(c, updates, ops')
    BY <1>1, KeptNow, PhaseCancelled
<1>4. /\ c.current = bridge.current /\ c.active = None /\ c.pending = None
    <2>1. /\ c.current = bridge.current
          /\ c.pending = IF Owns(bridge.pending, Leases) THEN None ELSE bridge.pending
          /\ c.active = IF Owns(bridge.active, Leases) THEN None ELSE bridge.active
        BY KeptNow, CancelledKnown
    <2> QED
        BY <2>1, KeptNow, SlotFields DEF Owns
<1> HIDE DEF c
<1>5. mode = IF updates = <<>> THEN bridge.current ELSE Last(updates)
    BY <1>1, KeptNow DEF Follows
<1>6. ops' \in Seq(Modes) /\ updates \in Seq(Modes)
    BY <1>1, KeptNow, CancelledKnown, ConcatProperties
<1>7. /\ AllFree(updates, ops') /\ (Some(updates, ops') \/ Unlocked(bridge.current))
      \/ EndsFree(updates, ops')
    BY <1>3, <1>4 DEF Phase, Unaware, AtRest, Returning, Returned, Locking, Holding
<1>8. ASSUME NEW q \in Seq(Modes), Free(q), q # <<>> PROVE Last(q) # Locked
    <2>1. Len(q) \in DOMAIN q
        BY <1>8, EmptySeq, LenProperties
    <2> QED
        BY <1>8, <2>1 DEF Free, Last
<1> QED
    BY <1>5, <1>6, <1>7, <1>8 DEF AllFree, EndsFree, Some, Unlocked

LEMMA KeptHandles ==
    ASSUME KeptInv, NEW r \in Request, Handles(r)
    PROVE  Kept'
<1>1. bridge.loaded /\ UNCHANGED <<mode, updates, userMode>>
    BY DEF Handles
<1>2. PICK l \in Leases : l = r.lease
    BY DEF Request
<1>3. CASE r.kind = "Begin"
    <2>1. /\ bridge' = Began(bridge, l) /\ ops' = ops \o BeganOps(bridge, l)
          /\ overtaken' = (overtaken \/ Overtakes(l))
        BY <1>2, <1>3 DEF Handles
    <2>2. bridge'.loaded /\ bridge'.current = bridge.current
        BY <1>1, <2>1, NowKnown, BeganKnown DEF KeptInv, Same
    <2>3. ASSUME ~overtaken', userMode # Locked
          PROVE  Phase(bridge', updates, ops')
        <3>1. ~overtaken /\ (Retried(bridge, l) \/ (bridge.pending = None /\ bridge.active = None))
            BY <2>1, <2>3 DEF Overtakes
        <3>2. Phase(Began(bridge, l), updates, ops \o BeganOps(bridge, l))
            BY <1>1, <2>3, <3>1, KeptNow, PhaseBegan
        <3> QED
            BY <2>1, <3>2
    <2>4. overtaken => overtaken'
        BY <2>1
    <2> QED
        BY <1>1, <2>2, <2>3, <2>4, KeptAsks
<1>4. CASE r.kind = "End"
    <2>1. /\ bridge' = Cancelled(bridge, {l}) /\ ops' = ops \o RestoreOps(bridge, {l})
          /\ overtaken' = overtaken
        BY <1>2, <1>4 DEF Handles
    <2> QED
        BY <1>1, <2>1, KeptCancels
<1>5. CASE r.kind = "Renew"
    <2>1. /\ bridge' = IF Owns(bridge.active, {l})
                       THEN [bridge EXCEPT !.active.ticks = LeaseTicks] ELSE bridge
          /\ UNCHANGED <<ops, overtaken>>
        BY <1>2, <1>5 DEF Handles
    <2>2. CASE ~Owns(bridge.active, {l})
        BY <1>1, <2>1, <2>2, KeptSame DEF hostVars
    <2>3. CASE Owns(bridge.active, {l})
        <3>1. bridge.active # None /\ bridge' = [bridge EXCEPT !.active.ticks = LeaseTicks]
            BY <2>1, <2>3 DEF Owns
        <3>2. LeaseTicks \in 1..LeaseTicks
            BY BridgeAssumption
        <3>3. /\ bridge'.loaded /\ bridge'.current = bridge.current
              /\ bridge'.pending = bridge.pending /\ bridge'.barrier = bridge.barrier
              /\ bridge'.active # None /\ bridge'.active.prior = bridge.active.prior
            BY <1>1, <3>1, <3>2, TicksLeft
        <3> QED
            BY <1>1, <2>1, <3>1, <3>3, KeptSlots
    <2> QED
        BY <2>2, <2>3
<1> QED
    BY <1>1, <1>3, <1>4, <1>5 DEF Request

LEMMA KeptSubscribes ==
    ASSUME KeptInv, BridgeSubscribes
    PROVE  Kept'
<1> DEFINE c == Cancelled(bridge, Leases)
<1>1. /\ bridge.loaded /\ ops' = ops \o RestoreOps(bridge, Leases)
      /\ UNCHANGED <<mode, updates, userMode, overtaken>>
      /\ bridge' = [c EXCEPT !.registered = FALSE]
    BY DEF BridgeSubscribes
<1>2. c \in Bridge /\ c.loaded /\ c.current = bridge.current
    BY <1>1, NowKnown, CancelledKnown DEF KeptInv, Same, Known
<1>3. ~overtaken' /\ userMode # Locked => Phase(c, updates, ops')
    BY <1>1, KeptNow, PhaseCancelled
<1> HIDE DEF c
<1>4. /\ bridge'.loaded /\ bridge'.current = bridge.current /\ bridge'.current = c.current
      /\ bridge'.pending = c.pending /\ bridge'.active = c.active /\ bridge'.barrier = c.barrier
    BY <1>1, <1>2 DEF Bridge
<1>5. ~overtaken' /\ userMode # Locked => Phase(bridge', updates, ops')
    BY <1>3, <1>4, PhaseSame
<1> QED
    BY <1>1, <1>4, <1>5, KeptAsks

LEMMA KeptRegisters ==
    ASSUME KeptInv, BridgeRegisters
    PROVE  Kept'
<1>1. /\ bridge.loaded /\ UNCHANGED <<mode, updates, userMode, ops, overtaken>>
      /\ bridge' = [bridge EXCEPT !.registered = TRUE] /\ bridge \in Bridge
    BY NowKnown DEF BridgeRegisters, hostVars, KeptInv
<1>2. /\ bridge'.loaded /\ bridge'.current = bridge.current /\ bridge'.active = bridge.active
      /\ bridge'.pending = bridge.pending /\ bridge'.barrier = bridge.barrier
    BY <1>1 DEF Bridge
<1> QED
    BY <1>1, <1>2, KeptSlots

-----------------------------------------------------------------------------

LEMMA InitKept == Init => KeptInv /\ userMode # Locked
<1> SUFFICES ASSUME Init PROVE KeptInv /\ userMode # Locked
    OBVIOUS
<1>1. /\ ops = <<>> /\ updates = <<>> /\ userMode = mode /\ Unlocked(mode)
      /\ bridge = [FreshBridge EXCEPT !.registered = TRUE, !.current = mode]
    BY BridgeAssumption DEF Init, Modes, Unlocked
<1>2. /\ bridge.loaded /\ bridge.current = mode /\ bridge.pending = None /\ bridge.active = None
      /\ bridge.barrier = "none"
    BY <1>1 DEF FreshBridge
<1>3. Follows /\ Phase(bridge, updates, ops)
    BY <1>1, <1>2, NoModes DEF Follows, Phase, AtRest, AllFree
<1> QED
    BY <1>1, <1>3, InitCaptures DEF KeptInv, Kept, Unlocked

(* Every step keeps it, unless a user who is in Locked mode leaves it; only *)
(* Switch changes the mode the user chose, and its budget.                 *)
LEMMA KeptStep ==
    ASSUME KeptInv, [Next]_vars, userMode = Locked => userMode' = Locked
    PROVE  KeptInv'
<1>1. CaptureInv'
    BY CaptureInductive DEF KeptInv
<1> SUFFICES Kept'
    BY <1>1 DEF KeptInv
<1>2. CASE UNCHANGED vars
    BY <1>2, KeptSame DEF vars, hostVars
<1>3. CASE Switch
    BY <1>3, KeptSwitch
<1>4. CASE ZellijStep
    BY <1>4, KeptHostApplies, KeptSeesMode, KeptTicks, KeptLoads DEF ZellijStep
<1>5. ASSUME NEW l \in Leases,
             BeginAdmitted(l) \/ Begin(l) \/ Detaches(l) \/ BrokerHears(l) \/ End(l)
      PROVE  Kept'
    <2>1. UNCHANGED <<hostVars, bridge, overtaken>>
        BY <1>5 DEF BeginAdmitted, Begin, BeginTable, BeginQueued, BeginConfirmed, BeginTimesOut,
                    BeginTakenBack, BrokerStores, Detaches, BrokerHears, End, EndReleases, EndQueued
    <2> QED
        BY <2>1, KeptSame
<1>6. CASE \/ Renews \/ Pump \/ AdapterHears \/ AdapterIgnores \/ Resume \/ ChannelRestarts
           \/ ClientExpires \/ RequestLost \/ WriteFails \/ Suspend \/ BrokerDies
    <2>1. UNCHANGED <<hostVars, bridge, overtaken>>
        BY <1>6 DEF Renews, Pump, AdapterHears, AdapterIgnores, Resume, ChannelRestarts,
                    ClientExpires, RequestLost, WriteFails, Suspend, BrokerDies
    <2> QED
        BY <2>1, KeptSame
<1>7. CASE BridgeHandles \/ BridgeHandlesLate
    <2>1. PICK r \in Request : Handles(r)
        BY <1>7 DEF BridgeHandles, BridgeHandlesLate, KeptInv, CaptureInv, TypeOK
    <2> QED
        BY <2>1, KeptHandles
<1>8. CASE Reload
    BY <1>8, KeptCloses DEF Reload
<1>9. CASE BridgeSubscribes \/ BridgeRegisters
    BY <1>9, KeptSubscribes, KeptRegisters
<1> QED
    BY <1>2, <1>3, <1>4, <1>5, <1>6, <1>7, <1>8, <1>9 DEF Next

LEMMA OnlySwitch ==
    ASSUME CaptureInv, [Next]_vars, ~Switch
    PROVE  userMode' = userMode /\ left'.switches = left.switches
<1>1. CASE UNCHANGED vars
    BY <1>1 DEF vars, hostVars
<1>2. CASE ZellijStep
    BY <1>2 DEF ZellijStep, HostApplies, BridgeSeesMode, BridgeTicks, BridgeLoads, hostVars
<1>3. ASSUME NEW l \in Leases,
             BeginAdmitted(l) \/ Begin(l) \/ Detaches(l) \/ BrokerHears(l) \/ End(l)
      PROVE  userMode' = userMode /\ left' = left
    BY <1>3 DEF BeginAdmitted, Begin, BeginTable, BeginQueued, BeginConfirmed, BeginTimesOut,
                BeginTakenBack, BrokerStores, Detaches, BrokerHears, End, EndReleases, EndQueued, hostVars
<1>4. CASE \/ Renews \/ Pump \/ AdapterHears \/ AdapterIgnores \/ Resume
           \/ BridgeHandles \/ BridgeHandlesLate \/ BridgeSubscribes \/ BridgeRegisters
    BY <1>4 DEF Renews, Pump, AdapterHears, AdapterIgnores, Resume, BridgeHandles, BridgeHandlesLate,
                Handles, BridgeSubscribes, BridgeRegisters, hostVars
<1>5. CASE \/ ChannelRestarts \/ ClientExpires \/ RequestLost \/ WriteFails \/ Suspend
           \/ BrokerDies
    <2>1. userMode' = userMode
        BY <1>5 DEF ChannelRestarts, ClientExpires, RequestLost, WriteFails, Suspend, BrokerDies, hostVars
    <2>2. left'.switches = left.switches
        BY <1>5, FaultBudget, OrReloadedBudget
           DEF ChannelRestarts, ClientExpires, RequestLost, WriteFails, Suspend, BrokerDies
    <2> QED
        BY <2>1, <2>2
<1>6. CASE Reload
    BY <1>6, FaultBudget DEF Reload, BridgeCloses
<1> QED
    BY <1>1, <1>2, <1>3, <1>4, <1>5, <1>6 DEF Next

LEMMA KeptGivesBack == KeptInv => GivenBack
<1> SUFFICES ASSUME KeptInv, ~overtaken, Settled, mode = Locked, userMode # Locked PROVE FALSE
    BY DEF GivenBack, NotLocked
<1>1. ops = <<>> /\ updates = <<>> /\ bridge.pending = None /\ bridge.active = None
    BY DEF Settled
<1>2. CASE bridge.loaded
    <2>1. mode = bridge.current /\ Phase(bridge, updates, ops)
        BY <1>1, <1>2, KeptNow DEF Follows
    <2>2. ~LockAhead(updates, ops) /\ ~Some(updates, ops)
        BY <1>1, NoModes DEF LockAhead, Some
    <2>3. AtRest(bridge, updates, ops)
        BY <1>1, <2>1, <2>2 DEF Phase, Unaware, Returning, Returned, Locking, Holding
    <2> QED
        BY <2>1, <2>3 DEF AtRest, Unlocked
<1>3. CASE ~bridge.loaded
    BY <1>1, <1>3, KeptNow DEF Follows
<1> QED
    BY <1>2, <1>3

(* A user who never chooses Locked himself is not left in it, however      *)
(* often he changes the mode meanwhile, and whatever fails and however     *)
(* often: cancel_capture_for_restore, on_mode_update and the barrier       *)
(* between them put the mode back, if no menu's capture reached the plugin *)
(* before the one it held had ended.                                       *)
THEOREM UnlockedUserNotLeftLocked ==
    Spec /\ [][userMode' # Locked]_userMode => []GivenBack
<1>1. KeptInv /\ userMode # Locked /\ [Next]_vars /\ [userMode' # Locked]_userMode
        => (KeptInv /\ userMode # Locked)'
    BY KeptStep
<1> QED
    BY <1>1, InitKept, KeptGivesBack, PTL DEF Spec

(* The same holds of a user who changes the mode once, to Locked too.      *)
(* Two changes are too many: one into Locked, which the plugin may see     *)
(* late and take for its own, and one out of it.                           *)
THEOREM ModeGivenBack ==
    ASSUME \A b \in Budgets : b.switches <= 1
    PROVE  Spec => []GivenBack
<1> DEFINE Once == left.switches \in 0..1 /\ (userMode = Locked => left.switches = 0)
<1>1. Init => KeptInv /\ Once
    <2> SUFFICES ASSUME Init PROVE KeptInv /\ Once
        OBVIOUS
    <2>1. left \in Budgets /\ left.switches \in Nat
        BY BudgetsAssumption DEF Init, Budget
    <2> QED
        BY <2>1, InitKept
<1>2. KeptInv /\ Once /\ [Next]_vars => (KeptInv /\ Once)'
    <2> SUFFICES ASSUME KeptInv, Once, [Next]_vars PROVE KeptInv' /\ Once'
        OBVIOUS
    <2>1. CASE Switch
        <3>1. left.switches > 0 /\ left' = [left EXCEPT !.switches = @ - 1] /\ left \in Budget
            BY <2>1 DEF Switch, KeptInv, CaptureInv, TypeOK
        <3>2. left'.switches = left.switches - 1
            BY <3>1 DEF Budget
        <3>3. userMode # Locked /\ left'.switches = 0
            BY <3>1, <3>2
        <3> QED
            BY <3>3, KeptStep
    <2>2. CASE ~Switch
        BY <2>2, OnlySwitch, KeptStep DEF KeptInv
    <2> QED
        BY <2>1, <2>2
<1> QED
    BY <1>1, <1>2, KeptGivesBack, PTL DEF Spec
=============================================================================
