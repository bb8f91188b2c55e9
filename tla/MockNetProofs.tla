---------------------------- MODULE MockNetProofs ----------------------------
(***************************************************************************)
(* Proofs about MockNet, for any connections and any number of messages    *)
(* and callbacks: no message for which a callback waits is forgotten, and  *)
(* callbacks and messages meet in their orders.  Callbacks may be added by *)
(* jobs and by callbacks; a connection to which a write callback of its    *)
(* own has added a read (late) may forget messages and is left out of the  *)
(* first claim.                                                            *)
(*                                                                         *)
(* That a pending message is notified of is not inductive alone.  AddRead  *)
(* notifies only when nothing was watched at the connection; otherwise the *)
(* notification of a pending write is still to come, or DispatchOne calls  *)
(* its read callbacks and looks at its queue again (Watched).  The order   *)
(* of the calls follows from counting: what was read, what is in the inbound  *)
(* queue and what waits in the queue of callbacks are the numbers in a row *)
(* (Numbered, Queued), where a callback that is being called is still in   *)
(* its queue.                                                              *)
(***************************************************************************)
EXTENDS MockNet, TLAPS

Spec == Init /\ [][Next]_mockVars

Watches == [reads : Seq(Nat), writes : Seq(Nat)]
Places == [c : Conns, stage : {"read", "read done", "write"}]
\* The types of the variables.
MockTypes ==
    /\ inbound \in [Conns -> Seq(Nat)] /\ messages \in [Conns -> Nat]
    /\ watcher \in SUBSET Conns
    /\ watch \in [Conns -> {<<>>} \cup {<<w>> : w \in Watches}]
    /\ notify \in Seq(Conns \cup {0})
    /\ at \in {<<>>} \cup {<<p>> : p \in Places}
    /\ added \in [reads : [Conns -> Nat], writes : [Conns -> Nat]]
    /\ calls \in [Conns -> Seq(Nat \X Nat)]
    /\ late \subseteq Conns

\* DispatchOne is at connection c, in one of the stages.
IsAt(c, stages) == at # <<>> /\ at[1].c = c /\ at[1].stage \in stages
\* c will be dispatched.
Notified(c) == \E i \in DOMAIN notify : notify[i] = c
\* The messages that were read are the first ones, the others wait in order.
Numbered(c) ==
    /\ messages[c] = Len(calls[c]) + Len(inbound[c])
    /\ \A i \in DOMAIN inbound[c] : inbound[c][i] = Len(calls[c]) + i
\* The callbacks that were called; one that is being called is still in its queue.
Popped(c) == IF IsAt(c, {"read done"}) THEN Len(calls[c]) - 1 ELSE Len(calls[c])
Queued(c) ==
    /\ watch[c] = <<>> => added.reads[c] = Len(calls[c])
    /\ watch[c] # <<>> =>
          /\ added.reads[c] = Popped(c) + Len(watch[c][1].reads)
          /\ \A i \in DOMAIN watch[c][1].reads : watch[c][1].reads[i] = Popped(c) + i
\* Where DispatchOne is, there is something to call.
Stage(c) ==
    /\ IsAt(c, {"read", "read done", "write"}) => watch[c] # <<>>
    /\ IsAt(c, {"read"}) => watch[c][1].reads # <<>> /\ inbound[c] # <<>>
    /\ IsAt(c, {"read done"}) => watch[c][1].reads # <<>>
    /\ IsAt(c, {"write"}) => watch[c][1].writes # <<>>
\* A connection with callbacks is watched; a pending AddWrite has notified.
Watched(c) ==
    watch[c] # <<>> =>
        /\ c \in watcher
        /\ watch[c][1].reads # <<>> \/ watch[c][1].writes # <<>>
        /\ watch[c][1].writes # <<>> => Notified(c) \/ IsAt(c, {"read", "read done", "write"})
        /\ inbound[c] # <<>> /\ watch[c][1].reads # <<>> =>
              Notified(c) \/ IsAt(c, {"read", "read done"}) \/ c \in late
\* The inductive invariant.
MockInv ==
    /\ MockTypes
    /\ \A c \in Conns : Numbered(c) /\ Queued(c) /\ Stage(c) /\ Watched(c)
       /\ \A i \in DOMAIN calls[c] : calls[c][i] = <<i, i>>

\* Sequences: what Append and Tail do.
LEMMA SeqAppend ==
    ASSUME NEW S, NEW s \in Seq(S), NEW x \in S
    PROVE  /\ Append(s, x) \in Seq(S) /\ Append(s, x) # <<>> /\ Len(Append(s, x)) = Len(s) + 1
           /\ Len(s) \in Nat /\ DOMAIN s = 1 .. Len(s) /\ DOMAIN Append(s, x) = 1 .. Len(s) + 1
           /\ \A i \in 1 .. Len(s) : Append(s, x)[i] = s[i]
           /\ Append(s, x)[Len(s) + 1] = x
  OBVIOUS
\* Tail of a sequence that is not empty.
LEMMA SeqTail ==
    ASSUME NEW S, NEW s \in Seq(S), s # <<>>
    PROVE  /\ Tail(s) \in Seq(S) /\ Len(Tail(s)) = Len(s) - 1 /\ s[1] \in S
           /\ Len(s) \in Nat /\ Len(s) > 0 /\ DOMAIN s = 1 .. Len(s) /\ DOMAIN Tail(s) = 1 .. Len(s) - 1
           /\ \A i \in 1 .. Len(s) - 1 : Tail(s)[i] = s[i + 1]
  OBVIOUS
\* A sequence is empty when its length is 0.
LEMMA SeqEmpty ==
    ASSUME NEW S, NEW s \in Seq(S)
    PROVE  Len(s) \in Nat /\ DOMAIN s = 1 .. Len(s) /\ (s = <<>> <=> Len(s) = 0)
  OBVIOUS

\* SeqAppend for numbers.
LEMMA NatAppend ==
    \A s \in Seq(Nat), n \in Nat :
           /\ Append(s, n) \in Seq(Nat) /\ Append(s, n) # <<>> /\ Len(Append(s, n)) = Len(s) + 1
           /\ Len(s) \in Nat /\ DOMAIN s = 1 .. Len(s) /\ DOMAIN Append(s, n) = 1 .. Len(s) + 1
           /\ \A i \in 1 .. Len(s) : Append(s, n)[i] = s[i]
           /\ Append(s, n)[Len(s) + 1] = n
  BY SeqAppend

\* Arithmetic on counters that move by one.
LEMMA MoveOne == \A a, b \in Nat : /\ (a - 1) + (b + 1) = a + b /\ (a + 1) + (b - 1) = a + b
                                   /\ (a - 1) + b = a + (b - 1)
  OBVIOUS
\* A number has a successor, and a sequence that is not empty a first element.
LEMMA SmallFacts == /\ \A n \in Nat : n + 1 \in Nat
                    /\ \A s \in Seq(Nat) : s # <<>> => 1 \in DOMAIN s
  BY SeqTail
\* Adding one to a sum.
LEMMA SuccSum == \A a, b \in Nat : (a + b) + 1 = a + (b + 1)
  OBVIOUS
\* The same for a number that may be negative.
LEMMA SuccSumInt == \A a \in Int, b \in Nat : (a + b) + 1 = a + (b + 1)
  OBVIOUS
\* Records: one component changes.
LEMMA WatchExcept ==
    ASSUME NEW r \in Watches, NEW x \in Seq(Nat)
    PROVE  /\ [r EXCEPT !.reads = x] = [reads |-> x, writes |-> r.writes]
           /\ [r EXCEPT !.writes = x] = [reads |-> r.reads, writes |-> x]
           /\ [r EXCEPT !.reads = x] \in Watches /\ [r EXCEPT !.writes = x] \in Watches
           /\ r.reads \in Seq(Nat) /\ r.writes \in Seq(Nat)
  BY DEF Watches
\* One more callback of a connection.
LEMMA AddedExcept ==
    ASSUME NEW a \in [reads : [Conns -> Nat], writes : [Conns -> Nat]], NEW c \in Conns
    PROVE  /\ [a EXCEPT !.reads[c] = @ + 1] = [reads |-> [a.reads EXCEPT ![c] = @ + 1], writes |-> a.writes]
           /\ [a EXCEPT !.writes[c] = @ + 1] = [reads |-> a.reads, writes |-> [a.writes EXCEPT ![c] = @ + 1]]
           /\ [a EXCEPT !.reads[c] = @ + 1] \in [reads : [Conns -> Nat], writes : [Conns -> Nat]]
           /\ [a EXCEPT !.writes[c] = @ + 1] \in [reads : [Conns -> Nat], writes : [Conns -> Nat]]
<1>1. a = [reads |-> a.reads, writes |-> a.writes] /\ a.reads \in [Conns -> Nat] /\ a.writes \in [Conns -> Nat]
  OBVIOUS
<1>2. [a.reads EXCEPT ![c] = @ + 1] \in [Conns -> Nat] /\ [a.writes EXCEPT ![c] = @ + 1] \in [Conns -> Nat]
  BY <1>1
<1> QED BY <1>1, <1>2

\* A sequence of one element whose element changes.
LEMMA OneExcept ==
    ASSUME NEW v, NEW w, v = <<w>>, NEW x
    PROVE  [v EXCEPT ![1] = x] = <<x>>
  OBVIOUS

\* A pending notification is taken off only at the front of notify_.
LEMMA NotifyAppend ==
    ASSUME MockTypes, NEW x \in Conns \cup {0}, notify' = Append(notify, x)
    PROVE  /\ notify' \in Seq(Conns \cup {0})
           /\ \A d \in Conns : Notified(d) => Notified(d)'
           /\ x \in Conns => Notified(x)'
<1>1. /\ DOMAIN notify = 1 .. Len(notify) /\ DOMAIN notify' = 1 .. Len(notify) + 1 /\ Len(notify) \in Nat
      /\ \A i \in 1 .. Len(notify) : notify'[i] = notify[i]
      /\ notify'[Len(notify) + 1] = x /\ notify' \in Seq(Conns \cup {0})
  BY SeqAppend DEF MockTypes
<1> QED BY <1>1 DEF Notified
\* DispatchOne takes one notification off.
LEMMA NotifyTail ==
    ASSUME MockTypes, notify # <<>>, notify' = Tail(notify)
    PROVE  /\ notify' \in Seq(Conns \cup {0}) /\ notify[1] \in Conns \cup {0}
           /\ \A d \in Conns : Notified(d) => Notified(d)' \/ d = notify[1]
<1>1. /\ DOMAIN notify = 1 .. Len(notify) /\ DOMAIN notify' = 1 .. Len(notify) - 1 /\ Len(notify) \in Nat
      /\ \A i \in 1 .. Len(notify) - 1 : notify'[i] = notify[i + 1]
      /\ notify' \in Seq(Conns \cup {0}) /\ notify[1] \in Conns \cup {0}
  BY SeqTail DEF MockTypes
<1>2. ASSUME NEW d \in Conns, NEW i \in DOMAIN notify, notify[i] = d, i # 1
      PROVE  Notified(d)'
  <2>1. i - 1 \in DOMAIN notify' /\ notify'[i - 1] = d
    BY <1>1, <1>2
  <2> QED BY <2>1 DEF Notified
<1> QED BY <1>1, <1>2 DEF Notified

\* What the types say of one connection.
LEMMA MockFacts ==
    ASSUME MockTypes, NEW c \in Conns
    PROVE  /\ inbound[c] \in Seq(Nat) /\ messages[c] \in Nat /\ calls[c] \in Seq(Nat \X Nat)
           /\ added.reads[c] \in Nat /\ added.writes[c] \in Nat
           /\ watch[c] # <<>> => watch[c] = <<watch[c][1]>> /\ watch[c][1] \in Watches
           /\ GetWatch(c) \in Watches
           /\ at # <<>> => at = <<at[1]>> /\ at[1] \in Places
<1>1. watch[c] # <<>> => watch[c] = <<watch[c][1]>> /\ watch[c][1] \in Watches
  <2>1. watch[c] \in {<<>>} \cup {<<w>> : w \in Watches}
    BY DEF MockTypes
  <2> QED BY <2>1
<1>2. at # <<>> => at = <<at[1]>> /\ at[1] \in Places
  BY DEF MockTypes
<1>3. GetWatch(c) \in Watches
  BY <1>1 DEF GetWatch, Watches
<1> QED BY <1>1, <1>2, <1>3 DEF MockTypes

\* At the start nothing is sent, added or notified.
LEMMA StartMock == Init => MockInv
<1> SUFFICES ASSUME Init PROVE MockInv
  OBVIOUS
<1> USE DEF Init
<1>1. MockTypes
  BY DEF MockTypes
<1>2. ASSUME NEW c \in Conns
      PROVE  Numbered(c) /\ Queued(c) /\ Stage(c) /\ Watched(c) /\ \A i \in DOMAIN calls[c] : calls[c][i] = <<i, i>>
  BY <1>2 DEF Numbered, Queued, Stage, Watched, IsAt
<1> QED BY <1>1, <1>2 DEF MockInv

\* InboundMsg: the message is behind the others, and a watched connection notifies.
LEMMA InboundKeeps ==
    ASSUME MockInv, NEW c \in Conns, InboundMsg(c)
    PROVE  MockInv'
<1>1. MockTypes
  BY DEF MockInv
<1>2. /\ messages' = [messages EXCEPT ![c] = @ + 1]
      /\ inbound' = [inbound EXCEPT ![c] = Append(@, messages[c] + 1)]
      /\ notify' = IF c \in watcher THEN Append(notify, c) ELSE notify
      /\ UNCHANGED <<watcher, watch, at, added, calls, late>>
  BY DEF InboundMsg
<1>3. /\ notify' \in Seq(Conns \cup {0})
      /\ \A d \in Conns : Notified(d) => Notified(d)'
      /\ c \in watcher => Notified(c)'
  BY <1>1, <1>2, NotifyAppend DEF MockTypes, Notified
<1>4. /\ inbound[c] \in Seq(Nat) /\ messages[c] \in Nat /\ messages[c] + 1 \in Nat
      /\ inbound'[c] = Append(inbound[c], messages[c] + 1)
      /\ messages'[c] = messages[c] + 1
      /\ \A d \in Conns : d # c => inbound'[d] = inbound[d] /\ messages'[d] = messages[d]
      /\ Len(calls[c]) \in Nat
  <2>1. Len(calls[c]) \in Nat
    BY <1>1, SeqEmpty, MockFacts
  <2> QED BY <1>1, <1>2, <2>1 DEF MockTypes
<1>5. /\ inbound'[c] \in Seq(Nat) /\ inbound'[c] # <<>> /\ Len(inbound'[c]) = Len(inbound[c]) + 1
      /\ Len(inbound[c]) \in Nat /\ DOMAIN inbound[c] = 1 .. Len(inbound[c])
      /\ DOMAIN inbound'[c] = 1 .. Len(inbound[c]) + 1
      /\ \A i \in 1 .. Len(inbound[c]) : inbound'[c][i] = inbound[c][i]
      /\ inbound'[c][Len(inbound[c]) + 1] = messages[c] + 1
  BY <1>4, SeqAppend
<1>6. MockTypes'
  <2>1. inbound' \in [Conns -> Seq(Nat)] /\ messages' \in [Conns -> Nat]
    BY <1>1, <1>2, <1>4, <1>5 DEF MockTypes
  <2> QED BY <1>1, <1>2, <1>3, <2>1 DEF MockTypes
<1>7. ASSUME NEW d \in Conns PROVE Numbered(d)'
  <2>1. Numbered(d) /\ calls' = calls
    BY <1>2 DEF MockInv
  <2>2. Len(calls[d]) \in Nat
    BY <1>1, SeqEmpty, MockFacts
  <2>3. CASE d # c
    BY <1>4, <2>1, <2>3 DEF Numbered
  <2>4. CASE d = c
    <3>1. messages[c] = Len(calls[c]) + Len(inbound[c])
      BY <2>1, <2>4 DEF Numbered
    <3>4. Len(calls[c]) \in Nat /\ Len(inbound[c]) \in Nat
      BY <1>4, <1>5
    <3>5. messages[c] + 1 = Len(calls[c]) + (Len(inbound[c]) + 1)
      BY <3>1, <3>4, SuccSum
    <3>2. ASSUME NEW i \in 1 .. Len(inbound[c]) + 1 PROVE inbound'[c][i] = Len(calls[c]) + i
      <4>1. CASE i = Len(inbound[c]) + 1
        BY <1>5, <3>5, <4>1
      <4>2. CASE i # Len(inbound[c]) + 1
        <5>1. i \in 1 .. Len(inbound[c])
          BY <1>5, <4>2
        <5> QED BY <1>5, <2>1, <2>4, <5>1 DEF Numbered
      <4> QED BY <4>1, <4>2
    <3>3. messages'[c] = Len(calls[c]) + Len(inbound'[c])
      BY <1>4, <1>5, <3>5
    <3> QED BY <1>5, <2>1, <2>4, <3>2, <3>3 DEF Numbered
  <2> QED BY <2>3, <2>4
<1>8. ASSUME NEW d \in Conns PROVE Queued(d)' /\ Stage(d)' /\ Watched(d)'
  <2>1. Queued(d) /\ Stage(d) /\ Watched(d)
    BY DEF MockInv
  <2>2. Queued(d)'
    BY <1>2, <2>1 DEF Queued, Popped, IsAt
  <2>3. Stage(d)'
    BY <1>2, <1>4, <1>5, <2>1 DEF Stage, IsAt
  <2>4. Watched(d)'
    BY <1>2, <1>3, <1>4, <2>1 DEF Watched, IsAt
  <2> QED BY <2>2, <2>3, <2>4
<1> QED BY <1>2, <1>6, <1>7, <1>8 DEF MockInv

\* AddRead: the callback is behind the others.  The notification of a connection with
\* a message is due already when something was watched before.
LEMMA AddReadKeeps ==
    ASSUME MockInv, NEW c \in Conns, AddRead(c)
    PROVE  MockInv'
<1> DEFINE old == GetWatch(c)
           new == [old EXCEPT !.reads = Append(@, added.reads[c] + 1)]
<1>1. MockTypes
  BY DEF MockInv
<1>2. /\ added' = [added EXCEPT !.reads[c] = @ + 1]
      /\ watch' = [watch EXCEPT ![c] = <<new>>]
      /\ watcher' = watcher \cup {c}
      /\ notify' = IF watch[c] = <<>> /\ inbound[c] # <<>> THEN Append(notify, c) ELSE notify
      /\ UNCHANGED <<inbound, messages, at, calls>>
      /\ late' = IF InWriteCallback(c) THEN late \cup {c} ELSE late
      /\ at # <<>> => at[1].stage # "read"
  BY DEF AddRead, Activate, MayAdd
<1>3. /\ notify' \in Seq(Conns \cup {0})
      /\ \A d \in Conns : Notified(d) => Notified(d)'
      /\ watch[c] = <<>> /\ inbound[c] # <<>> => Notified(c)'
  BY <1>1, <1>2, NotifyAppend DEF MockTypes, Notified
<1>4. /\ old \in Watches /\ added.reads[c] \in Nat
      /\ watch[c] = <<>> => old.reads = <<>> /\ old.writes = <<>>
      /\ watch[c] # <<>> => old = watch[c][1]
      /\ \A d \in Conns : Len(calls[d]) \in Nat
  <2>1. \A d \in Conns : Len(calls[d]) \in Nat
    BY <1>1, SeqEmpty, MockFacts
  <2> QED BY <1>1, <2>1, MockFacts DEF GetWatch
<1>5. /\ new \in Watches /\ new.reads = Append(old.reads, added.reads[c] + 1) /\ new.writes = old.writes
      /\ old.reads \in Seq(Nat)
  <2>1. added.reads[c] + 1 \in Nat /\ old.reads \in Seq(Nat)
    BY <1>4 DEF Watches
  <2>2. Append(old.reads, added.reads[c] + 1) \in Seq(Nat)
    BY <2>1
  <2>3. new = [reads |-> Append(old.reads, added.reads[c] + 1), writes |-> old.writes] /\ new \in Watches
    BY <1>4, <2>2, WatchExcept
  <2> QED BY <2>1, <2>3
<1>10. added.reads[c] + 1 \in Nat
  BY <1>4
<1> HIDE DEF new, old
<1>6. /\ new.reads # <<>> /\ Len(new.reads) = Len(old.reads) + 1 /\ Len(old.reads) \in Nat
      /\ DOMAIN old.reads = 1 .. Len(old.reads) /\ DOMAIN new.reads = 1 .. Len(old.reads) + 1
      /\ \A i \in 1 .. Len(old.reads) : new.reads[i] = old.reads[i]
      /\ new.reads[Len(old.reads) + 1] = added.reads[c] + 1
  BY <1>5, <1>10, SeqAppend
<1>7. /\ watch'[c] = <<new>> /\ \A d \in Conns : d # c => watch'[d] = watch[d]
      /\ added'.reads[c] = added.reads[c] + 1 /\ \A d \in Conns : d # c => added'.reads[d] = added.reads[d]
      /\ added' \in [reads : [Conns -> Nat], writes : [Conns -> Nat]]
  <2>1. /\ added' = [reads |-> [added.reads EXCEPT ![c] = @ + 1], writes |-> added.writes]
        /\ added' \in [reads : [Conns -> Nat], writes : [Conns -> Nat]]
    BY <1>1, <1>2, AddedExcept DEF MockTypes
  <2>2. added.reads \in [Conns -> Nat]
    BY <1>1 DEF MockTypes
  <2>3. watch \in [Conns -> {<<>>} \cup {<<w>> : w \in Watches}]
    BY <1>1 DEF MockTypes
  <2> QED BY <1>2, <2>1, <2>2, <2>3
<1>8. MockTypes'
  <2>1. watch' \in [Conns -> {<<>>} \cup {<<w>> : w \in Watches}]
    BY <1>1, <1>2, <1>5 DEF MockTypes
  <2> QED BY <1>1, <1>2, <1>3, <1>7, <2>1 DEF MockTypes
<1>9. ASSUME NEW d \in Conns
      PROVE  Numbered(d)' /\ Queued(d)' /\ Stage(d)' /\ Watched(d)'
  <2>1. Numbered(d) /\ Queued(d) /\ Stage(d) /\ Watched(d)
    BY DEF MockInv
  <2>2. Numbered(d)'
    BY <1>2, <2>1 DEF Numbered
  <2>3. /\ Popped(d)' = Popped(d) /\ calls' = calls /\ Popped(d) \in Int
        /\ watch[d] = <<>> => Popped(d) = Len(calls[d])
    <3>1. Popped(d)' = Popped(d) /\ calls' = calls
      BY <1>2 DEF Popped, IsAt
    <3>2. Popped(d) \in Int
      BY <1>4 DEF Popped
    <3>3. watch[d] = <<>> => ~IsAt(d, {"read done"})
      BY <2>1 DEF Stage, IsAt
    <3> QED BY <3>1, <3>2, <3>3 DEF Popped
  <2>4. Queued(d)'
    <3>1. CASE d # c
      BY <1>7, <2>1, <2>3, <3>1 DEF Queued
    <3>2. CASE d = c
      <4>1. /\ added.reads[c] = Popped(c) + Len(old.reads)
            /\ \A i \in 1 .. Len(old.reads) : old.reads[i] = Popped(c) + i
        <5>1. CASE watch[c] = <<>>
          <6>1. old.reads = <<>> /\ Len(old.reads) = 0 /\ added.reads[c] = Popped(c)
            BY <1>4, <2>1, <2>3, <3>2, <5>1 DEF Queued
          <6> QED BY <2>3, <3>2, <6>1
        <5>2. CASE watch[c] # <<>>
          BY <1>4, <1>6, <2>1, <3>2, <5>2 DEF Queued
        <5> QED BY <5>1, <5>2
      <4>5. added.reads[c] + 1 = Popped(c) + (Len(old.reads) + 1)
        <5>1. Popped(c) \in Int /\ Len(old.reads) \in Nat /\ added.reads[c] = Popped(c) + Len(old.reads)
          BY <1>6, <2>3, <3>2, <4>1
        <5> QED BY <5>1, SuccSumInt
      <4>2. ASSUME NEW i \in 1 .. Len(old.reads) + 1 PROVE new.reads[i] = Popped(c) + i
        <5>1. CASE i = Len(old.reads) + 1
          BY <1>6, <4>5, <5>1
        <5>2. CASE i # Len(old.reads) + 1
          <6>1. i \in 1 .. Len(old.reads)
            BY <1>6, <5>2
          <6> QED BY <1>6, <4>1, <6>1
        <5> QED BY <5>1, <5>2
      <4>3. added'.reads[c] = Popped(c) + Len(new.reads)
        BY <1>6, <1>7, <4>5
      <4>4. watch'[c] # <<>> /\ watch'[c][1] = new
        BY <1>7
      <4> QED BY <1>6, <2>3, <3>2, <4>2, <4>3, <4>4 DEF Queued
    <3> QED BY <3>1, <3>2
  <2>5. Stage(d)'
    <3>1. CASE d # c
      BY <1>2, <1>7, <2>1, <3>1 DEF Stage, IsAt
    <3>2. CASE d = c
      <4>1. watch'[c] # <<>> /\ watch'[c][1] = new
        BY <1>7
      <4>2. IsAt(c, {"write"}) => old.writes # <<>>
        <5>1. IsAt(c, {"write"}) => IsAt(c, {"read", "read done", "write"})
          BY DEF IsAt
        <5> QED BY <1>4, <2>1, <3>2, <5>1 DEF Stage
      <4>3. IsAt(c, {"read"}) => inbound[c] # <<>>
        BY <2>1, <3>2 DEF Stage
      <4> QED BY <1>2, <1>5, <1>6, <3>2, <4>1, <4>2, <4>3 DEF Stage, IsAt
    <3> QED BY <3>1, <3>2
  <2>6. Watched(d)'
    <3>1. CASE d # c
      <4>1. late \subseteq late' /\ watcher \subseteq watcher'
        BY <1>2
      <4> QED BY <1>2, <1>3, <1>7, <2>1, <3>1, <4>1 DEF Watched, IsAt
    <3>2. CASE d = c
      <4>1. watch'[c][1] = new /\ c \in watcher' /\ new.reads # <<>> /\ new.writes = old.writes
        BY <1>2, <1>5, <1>6, <1>7
      <4>2. old.writes # <<>> => Notified(c)' \/ IsAt(c, {"read", "read done", "write"})'
        BY <1>2, <1>3, <1>4, <2>1, <3>2 DEF Watched, IsAt
      <4>3. inbound[c] # <<>> => Notified(c)' \/ IsAt(c, {"read", "read done"})' \/ c \in late'
        <5>1. CASE IsAt(c, {"write"})
          <6>1. at = <<at[1]>> /\ at[1] \in Places
            BY <1>1, <5>1, MockFacts DEF IsAt
          <6>2. InWriteCallback(c)
            BY <5>1, <6>1 DEF IsAt, InWriteCallback, Places
          <6> QED BY <1>2, <6>2
        <5>2. CASE ~IsAt(c, {"write"})
          <6>1. IsAt(c, {"read", "read done", "write"}) => IsAt(c, {"read", "read done"})
            BY <5>2 DEF IsAt
          <6>2. CASE watch[c] = <<>>
            BY <1>3, <6>2
          <6>3. CASE watch[c] # <<>>
            <7>1. old = watch[c][1] /\ (old.reads # <<>> \/ old.writes # <<>>)
              BY <1>4, <2>1, <3>2, <6>3 DEF Watched
            <7>2. inbound[c] # <<>> => Notified(c) \/ IsAt(c, {"read", "read done"}) \/ c \in late
              BY <2>1, <3>2, <6>1, <6>3, <7>1 DEF Watched
            <7> QED BY <1>2, <1>3, <7>2 DEF IsAt
          <6> QED BY <6>2, <6>3
        <5> QED BY <5>1, <5>2
      <4> QED BY <1>2, <3>2, <4>1, <4>2, <4>3 DEF Watched
    <3> QED BY <3>1, <3>2
  <2> QED BY <2>2, <2>4, <2>5, <2>6
<1> QED BY <1>2, <1>8, <1>9 DEF MockInv

\* AddWrite always notifies.
LEMMA AddWriteKeeps ==
    ASSUME MockInv, NEW c \in Conns, AddWrite(c)
    PROVE  MockInv'
<1> DEFINE old == GetWatch(c)
           new == [old EXCEPT !.writes = Append(@, added.writes[c] + 1)]
<1>1. MockTypes
  BY DEF MockInv
<1>2. /\ added' = [added EXCEPT !.writes[c] = @ + 1]
      /\ watch' = [watch EXCEPT ![c] = <<new>>]
      /\ watcher' = watcher \cup {c}
      /\ notify' = Append(notify, c)
      /\ UNCHANGED <<inbound, messages, at, calls, late>>
  BY DEF AddWrite
<1>3. /\ notify' \in Seq(Conns \cup {0}) /\ Notified(c)'
      /\ \A d \in Conns : Notified(d) => Notified(d)'
  BY <1>1, <1>2, NotifyAppend
<1>4. /\ old \in Watches /\ added.writes[c] \in Nat
      /\ watch[c] = <<>> => old.reads = <<>>
      /\ watch[c] # <<>> => old = watch[c][1]
      /\ \A d \in Conns : Len(calls[d]) \in Nat
  <2>1. \A d \in Conns : Len(calls[d]) \in Nat
    BY <1>1, SeqEmpty, MockFacts
  <2> QED BY <1>1, <2>1, MockFacts DEF GetWatch
<1>5. /\ new.writes = Append(old.writes, added.writes[c] + 1) /\ new.reads = old.reads
      /\ old.writes \in Seq(Nat) /\ new.writes \in Seq(Nat) /\ new.writes # <<>> /\ new \in Watches
  <2>1. new.writes = Append(old.writes, added.writes[c] + 1) /\ new.reads = old.reads /\ old.writes \in Seq(Nat)
    BY <1>4 DEF Watches
  <2>2. added.writes[c] + 1 \in Nat
    BY <1>4
  <2>3. Append(old.writes, added.writes[c] + 1) \in Seq(Nat) /\ Append(old.writes, added.writes[c] + 1) # <<>>
    BY <2>1, <2>2, NatAppend
  <2>4. new \in Watches
    BY <1>4, <2>3, WatchExcept
  <2> QED BY <2>1, <2>3, <2>4
<1>6. /\ watch'[c] = <<new>> /\ \A d \in Conns : d # c => watch'[d] = watch[d]
      /\ added'.reads = added.reads /\ added' \in [reads : [Conns -> Nat], writes : [Conns -> Nat]]
  <2>1. /\ added' = [reads |-> added.reads, writes |-> [added.writes EXCEPT ![c] = @ + 1]]
        /\ added' \in [reads : [Conns -> Nat], writes : [Conns -> Nat]]
    BY <1>1, <1>2, AddedExcept DEF MockTypes
  <2>2. watch \in [Conns -> {<<>>} \cup {<<w>> : w \in Watches}]
    BY <1>1 DEF MockTypes
  <2> QED BY <1>2, <2>1, <2>2
<1> HIDE DEF new, old
<1>7. watch'[c] # <<>> /\ watch'[c][1] = new
  BY <1>6
<1>8. MockTypes'
  <2>1. watch' \in [Conns -> {<<>>} \cup {<<w>> : w \in Watches}]
    BY <1>1, <1>2, <1>5 DEF MockTypes
  <2> QED BY <1>1, <1>2, <1>3, <1>6, <2>1 DEF MockTypes
<1>9. ASSUME NEW d \in Conns
      PROVE  Numbered(d)' /\ Queued(d)' /\ Stage(d)' /\ Watched(d)'
  <2>1. Numbered(d) /\ Queued(d) /\ Stage(d) /\ Watched(d)
    BY DEF MockInv
  <2>2. Numbered(d)'
    BY <1>2, <2>1 DEF Numbered
  <2>3. /\ Popped(d)' = Popped(d) /\ calls' = calls
        /\ watch[d] = <<>> => Popped(d) = Len(calls[d])
    BY <1>2, <2>1 DEF Popped, Stage, IsAt
  <2>4. Queued(d)'
    <3>1. CASE d # c
      BY <1>6, <2>1, <2>3, <3>1 DEF Queued
    <3>2. CASE d = c
      <4>1. watch'[c] # <<>> /\ watch'[c][1].reads = old.reads
        BY <1>5, <1>7
      <4>2. watch[c] = <<>> => Len(old.reads) = 0 /\ DOMAIN old.reads = 1 .. 0
        BY <1>4
      <4>3. CASE watch[c] = <<>>
        <5>1. added.reads[c] = Len(calls[c])
          BY <2>1, <3>2, <4>3 DEF Queued
        <5>2. Len(calls[c]) \in Nat /\ Len(old.reads) = 0
          BY <1>4, <4>2, <4>3
        <5>3. added'.reads[c] = Popped(c) + Len(old.reads)
          BY <1>6, <2>3, <3>2, <4>3, <5>1, <5>2
        <5>4. \A i \in DOMAIN old.reads : old.reads[i] = Popped(c) + i
          BY <4>2, <4>3
        <5> QED BY <2>3, <3>2, <4>1, <5>3, <5>4 DEF Queued
      <4>4. CASE watch[c] # <<>>
        <5>1. watch[c][1].reads = old.reads /\ added'.reads[c] = added.reads[c]
          BY <1>4, <1>6, <4>4
        <5>2. /\ added.reads[c] = Popped(c) + Len(watch[c][1].reads)
              /\ \A i \in DOMAIN watch[c][1].reads : watch[c][1].reads[i] = Popped(c) + i
          BY <2>1, <3>2, <4>4 DEF Queued
        <5>3. /\ added'.reads[c] = Popped(c) + Len(old.reads)
              /\ \A i \in DOMAIN old.reads : old.reads[i] = Popped(c) + i
          BY <5>1, <5>2
        <5> QED BY <2>3, <3>2, <4>1, <5>3 DEF Queued
      <4> QED BY <4>3, <4>4
    <3> QED BY <3>1, <3>2
  <2>5. Stage(d)'
    <3>1. CASE d # c
      BY <1>2, <1>6, <2>1, <3>1 DEF Stage, IsAt
    <3>2. CASE d = c
      <4>1. IsAt(c, {"read", "read done"}) => old.reads # <<>>
        BY <1>4, <2>1, <3>2 DEF Stage, IsAt
      <4>2. IsAt(c, {"read"}) => inbound[c] # <<>>
        BY <2>1, <3>2 DEF Stage, IsAt
      <4> QED BY <1>2, <1>5, <1>7, <3>2, <4>1, <4>2 DEF Stage, IsAt
    <3> QED BY <3>1, <3>2
  <2>6. Watched(d)'
    <3>1. CASE d # c
      BY <1>2, <1>3, <1>6, <2>1, <3>1 DEF Watched, IsAt
    <3>2. CASE d = c
      BY <1>2, <1>3, <1>5, <1>7, <3>2 DEF Watched
    <3> QED BY <3>1, <3>2
  <2> QED BY <2>2, <2>4, <2>5, <2>6
<1> QED BY <1>2, <1>8, <1>9 DEF MockInv

\* An interrupt only wakes the dispatcher.
LEMMA InterruptKeeps ==
    ASSUME MockInv, Interrupt
    PROVE  MockInv'
<1>1. MockTypes /\ at = <<>> /\ notify = <<>> /\ notify' = <<0>> /\ UNCHANGED <<inbound, messages, watcher, watch, at, added, calls, late>>
  BY DEF MockInv, Interrupt
<1>2. MockTypes'
  BY <1>1 DEF MockTypes
<1>3. ASSUME NEW d \in Conns
      PROVE  Numbered(d)' /\ Queued(d)' /\ Stage(d)' /\ Watched(d)'
  <2>1. Numbered(d) /\ Queued(d) /\ Watched(d) /\ ~Notified(d)
    BY <1>1 DEF MockInv, Notified
  <2> QED BY <1>1, <2>1 DEF Numbered, Queued, Popped, Stage, Watched, IsAt
<1> QED BY <1>1, <1>2, <1>3 DEF MockInv

\* What DispatchOne goes on with.
AllStages == {"read", "read done", "write"}
LEMMA FollowsFacts ==
    ASSUME MockTypes, NEW c \in Conns, NEW w \in Watches, NEW stage, Follows(c, w, stage, inbound[c])
    PROVE  /\ at' \in {<<>>} \cup {<<p>> : p \in Places}
           /\ watch' \in [Conns -> {<<>>} \cup {<<v>> : v \in Watches}] /\ watcher' \in SUBSET Conns
           /\ \A d \in Conns : d # c =>
                 watch'[d] = watch[d] /\ (d \in watcher => d \in watcher') /\ \A S \in SUBSET AllStages : ~IsAt(d, S)'
           /\ w.reads = <<>> /\ w.writes = <<>> => watch'[c] = <<>>
           /\ w.reads # <<>> \/ w.writes # <<>> => watch'[c] # <<>> /\ watch'[c][1] = w /\ watcher' = watcher
           /\ LET reads == stage = "read" /\ w.reads # <<>> /\ inbound[c] # <<>>
              IN /\ ~IsAt(c, {"read done"})'
                 /\ IsAt(c, {"read"})' <=> reads
                 /\ IsAt(c, {"write"})' <=> ~reads /\ w.writes # <<>>
                 /\ reads => IsAt(c, {"read", "read done"})'
                 /\ IsAt(c, AllStages)' <=> reads \/ w.writes # <<>>
<1> DEFINE reads == stage = "read" /\ w.reads # <<>> /\ inbound[c] # <<>>
           rest == w.writes # <<>>
<1>1. /\ at' = IF reads THEN <<[c |-> c, stage |-> "read"]>> ELSE IF rest THEN <<[c |-> c, stage |-> "write"]>> ELSE <<>>
      /\ watch' = [watch EXCEPT ![c] = IF w.reads = <<>> /\ w.writes = <<>> THEN <<>> ELSE <<w>>]
      /\ watcher' = IF w.reads = <<>> /\ w.writes = <<>> THEN watcher \ {c} ELSE watcher
  BY DEF Follows
<1>2. /\ watch' \in [Conns -> {<<>>} \cup {<<v>> : v \in Watches}] /\ watcher' \in SUBSET Conns
      /\ \A d \in Conns : d # c => watch'[d] = watch[d] /\ (d \in watcher => d \in watcher')
      /\ w.reads = <<>> /\ w.writes = <<>> => watch'[c] = <<>>
      /\ w.reads # <<>> \/ w.writes # <<>> => watch'[c] = <<w>> /\ watcher' = watcher
  BY <1>1 DEF MockTypes
<1>3. w.reads # <<>> \/ w.writes # <<>> => watch'[c] # <<>> /\ watch'[c][1] = w
  BY <1>2
<1> HIDE DEF reads, rest
<1>4. /\ reads => at' # <<>> /\ at'[1].c = c /\ at'[1].stage = "read"
      /\ ~reads /\ rest => at' # <<>> /\ at'[1].c = c /\ at'[1].stage = "write"
      /\ ~reads /\ ~rest => at' = <<>>
      /\ at' \in {<<>>} \cup {<<p>> : p \in Places}
  BY <1>1 DEF Places
<1>5. \A d \in Conns : d # c => \A S \in SUBSET AllStages : ~IsAt(d, S)'
  BY <1>4 DEF IsAt
<1>6. /\ ~IsAt(c, {"read done"})'
      /\ IsAt(c, {"read"})' <=> reads
      /\ IsAt(c, {"write"})' <=> ~reads /\ rest
      /\ reads => IsAt(c, {"read", "read done"})'
      /\ IsAt(c, AllStages)' <=> reads \/ rest
  BY <1>4 DEF IsAt, AllStages
<1> QED BY <1>2, <1>3, <1>4, <1>5, <1>6 DEF reads, rest

\* Going on keeps the invariant, when the callbacks left are those not yet called, and
\* when after the stage of the reads nothing is left to read that nobody notifies of.
LEMMA FollowsKeeps ==
    ASSUME MockInv, NEW c \in Conns, NEW w \in Watches, NEW stage \in {"read", "write"},
           Follows(c, w, stage, inbound[c]), UNCHANGED <<inbound, messages, added, calls, late>>,
           notify' \in Seq(Conns \cup {0}), \A d \in Conns : d # c /\ Notified(d) => Notified(d)',
           \A d \in Conns : d # c => \A S \in SUBSET AllStages : ~IsAt(d, S),
           c \in watcher,
           added.reads[c] = Len(calls[c]) + Len(w.reads),
           \A i \in DOMAIN w.reads : w.reads[i] = Len(calls[c]) + i,
           stage = "write" /\ inbound[c] # <<>> /\ w.reads # <<>> => Notified(c)' \/ c \in late
    PROVE  MockInv'
<1> DEFINE reads == stage = "read" /\ w.reads # <<>> /\ inbound[c] # <<>>
<1>1. MockTypes
  BY DEF MockInv
<1>2. /\ at' \in {<<>>} \cup {<<p>> : p \in Places}
      /\ watch' \in [Conns -> {<<>>} \cup {<<v>> : v \in Watches}] /\ watcher' \in SUBSET Conns
      /\ \A d \in Conns : d # c =>
            watch'[d] = watch[d] /\ (d \in watcher => d \in watcher') /\ \A S \in SUBSET AllStages : ~IsAt(d, S)'
      /\ w.reads = <<>> /\ w.writes = <<>> => watch'[c] = <<>>
      /\ w.reads # <<>> \/ w.writes # <<>> => watch'[c] # <<>> /\ watch'[c][1] = w /\ watcher' = watcher
      /\ ~IsAt(c, {"read done"})'
      /\ IsAt(c, {"read"})' <=> reads
      /\ IsAt(c, {"write"})' <=> ~reads /\ w.writes # <<>>
      /\ reads => IsAt(c, {"read", "read done"})'
      /\ IsAt(c, AllStages)' <=> reads \/ w.writes # <<>>
  BY <1>1, FollowsFacts
<1>3. MockTypes'
  BY <1>1, <1>2 DEF MockTypes
<1>4. {"read"} \in SUBSET AllStages /\ {"read done"} \in SUBSET AllStages /\ {"write"} \in SUBSET AllStages
      /\ {"read", "read done"} \in SUBSET AllStages /\ {"read", "read done", "write"} = AllStages
  BY DEF AllStages
<1>5. Len(calls[c]) \in Nat /\ w.reads \in Seq(Nat)
  BY <1>1, SeqEmpty, MockFacts, WatchExcept
<1>6. ASSUME NEW d \in Conns PROVE Numbered(d)'
  <2>1. Numbered(d)
    BY DEF MockInv
  <2> QED BY <2>1 DEF Numbered
<1>7. ASSUME NEW d \in Conns, d # c PROVE Queued(d)' /\ Stage(d)' /\ Watched(d)'
  <2>1. Queued(d) /\ Watched(d)
    BY DEF MockInv
  <2>2. \A S \in SUBSET AllStages : ~IsAt(d, S) /\ ~IsAt(d, S)'
    BY <1>2, <1>7
  <2>3. Popped(d) = Len(calls[d]) /\ Popped(d)' = Len(calls[d])
    BY <1>4, <2>2 DEF Popped
  <2>4. Queued(d)'
    BY <1>2, <1>7, <2>1, <2>3 DEF Queued
  <2>5. Stage(d)'
    BY <1>4, <2>2 DEF Stage
  <2>6. Watched(d)'
    BY <1>2, <1>4, <1>7, <2>1, <2>2 DEF Watched
  <2> QED BY <2>4, <2>5, <2>6
<1>8. Queued(c)' /\ Stage(c)' /\ Watched(c)'
  <2>1. Popped(c)' = Len(calls[c])
    BY <1>2 DEF Popped
  <2>2. Queued(c)'
    <3>1. CASE w.reads = <<>> /\ w.writes = <<>>
      <4>1. added.reads[c] = Len(calls[c])
        BY <1>5, <3>1
      <4> QED BY <1>2, <3>1, <4>1 DEF Queued
    <3>2. CASE w.reads # <<>> \/ w.writes # <<>>
      BY <1>2, <2>1, <3>2 DEF Queued
    <3> QED BY <3>1, <3>2
  <2>3. Stage(c)'
    BY <1>2, <1>4 DEF Stage
  <2>4. Watched(c)'
    BY <1>2, <1>4 DEF Watched
  <2> QED BY <2>2, <2>3, <2>4
<1>9. ASSUME NEW d \in Conns PROVE Queued(d)' /\ Stage(d)' /\ Watched(d)'
  BY <1>7, <1>8
<1> QED BY <1>3, <1>6, <1>9 DEF MockInv

\* Where DispatchOne is, it is nowhere else.
LEMMA OnePlace ==
    ASSUME MockTypes, at # <<>>
    PROVE  /\ at[1].c \in Conns /\ at[1].stage \in AllStages
           /\ \A d \in Conns : d # at[1].c => \A S \in SUBSET AllStages : ~IsAt(d, S)
  BY MockFacts DEF MockTypes, IsAt, Places, AllStages

\* DispatchOne takes a notification off and goes on with that connection.
LEMMA DispatchKeeps ==
    ASSUME MockInv, 0 \notin Conns, DispatchOne
    PROVE  MockInv'
<1>1. MockTypes
  BY DEF MockInv
<1> PICK c : c = notify[1]
  OBVIOUS
<1>2. /\ at = <<>> /\ notify # <<>> /\ notify' = Tail(notify) /\ UNCHANGED <<inbound, messages, added, calls, late>>
      /\ IF c = 0 \/ (c # 0 /\ watch[c] = <<>>) THEN UNCHANGED <<at, watch, watcher>>
         ELSE Follows(c, watch[c][1], "read", inbound[c])
  BY DEF DispatchOne
<1>3. /\ notify' \in Seq(Conns \cup {0}) /\ c \in Conns \cup {0}
      /\ \A d \in Conns : Notified(d) => Notified(d)' \/ d = c
  BY <1>1, <1>2, NotifyTail
<1>4. CASE c = 0 \/ watch[c] = <<>>
  <2>1. UNCHANGED <<at, watch, watcher>>
    BY <1>2, <1>4
  <2>2. MockTypes'
    BY <1>1, <1>2, <1>3, <2>1 DEF MockTypes
  <2>3. ASSUME NEW d \in Conns
        PROVE  Numbered(d)' /\ Queued(d)' /\ Stage(d)' /\ Watched(d)'
    <3>1. Numbered(d) /\ Queued(d) /\ Stage(d) /\ Watched(d)
      BY DEF MockInv
    <3>2. Numbered(d)'
      BY <1>2, <3>1 DEF Numbered
    <3>3. Queued(d)'
      BY <1>2, <2>1, <3>1 DEF Queued, Popped, IsAt
    <3>4. Stage(d)'
      BY <1>2, <2>1 DEF Stage, IsAt
    <3>5. watch[d] # <<>> => d # c
      BY <1>4
    <3>6. Watched(d)'
      BY <1>2, <1>3, <2>1, <3>1, <3>5 DEF Watched, IsAt
    <3> QED BY <3>2, <3>3, <3>4, <3>6
  <2> QED BY <1>2, <2>2, <2>3 DEF MockInv
<1>5. CASE c \in Conns /\ watch[c] # <<>>
  <2>1. Follows(c, watch[c][1], "read", inbound[c])
    BY <1>2, <1>5
  <2>2. watch[c][1] \in Watches /\ Queued(c) /\ Watched(c)
    BY <1>1, <1>5, MockFacts DEF MockInv
  <2>3. Popped(c) = Len(calls[c])
    BY <1>2 DEF Popped, IsAt
  <2>4. \A d \in Conns : \A S \in SUBSET AllStages : ~IsAt(d, S)
    BY <1>2 DEF IsAt
  <2>5. /\ added.reads[c] = Len(calls[c]) + Len(watch[c][1].reads) /\ c \in watcher
        /\ \A i \in DOMAIN watch[c][1].reads : watch[c][1].reads[i] = Len(calls[c]) + i
    BY <1>5, <2>2, <2>3 DEF Queued, Watched
  <2> QED BY <1>2, <1>3, <1>5, <2>1, <2>2, <2>4, <2>5, FollowsKeeps
<1> QED BY <1>3, <1>4, <1>5

\* The callback that is called is the first in its queue, with the first message.
LEMMA ReadCallbackKeeps ==
    ASSUME MockInv, ReadCallback
    PROVE  MockInv'
<1>1. MockTypes
  BY DEF MockInv
<1>0. at # <<>> /\ at[1].c \in Conns
  <2>1. at # <<>>
    BY DEF ReadCallback
  <2> QED BY <1>1, <2>1, OnePlace
<1> PICK c \in Conns : c = at[1].c
  BY <1>0
<1> DEFINE w == watch[c][1]
           n == Len(calls[c])
<1> HIDE DEF w, n
<1>2. /\ at # <<>> /\ at[1].stage = "read" /\ UNCHANGED <<messages, watcher, watch, notify, added, late>>
      /\ inbound' = [inbound EXCEPT ![c] = Tail(@)]
      /\ calls' = [calls EXCEPT ![c] = Append(@, <<w.reads[1], inbound[c][1]>>)]
      /\ at' = <<[c |-> c, stage |-> "read done"]>>
  BY DEF ReadCallback, w
<1>3. \A d \in Conns : d # c => \A S \in SUBSET AllStages : ~IsAt(d, S)
  BY <1>1, <1>2, OnePlace
<1>4. IsAt(c, {"read"}) /\ ~IsAt(c, {"read done"}) /\ Numbered(c) /\ Queued(c) /\ Stage(c) /\ Watched(c)
  BY <1>2, <1>3 DEF MockInv, IsAt
<1>5. /\ watch[c] # <<>> /\ w.reads # <<>> /\ inbound[c] # <<>> /\ watch[c] = <<w>> /\ w \in Watches
      /\ inbound[c] \in Seq(Nat) /\ calls[c] \in Seq(Nat \X Nat) /\ added.reads[c] \in Nat
      /\ w.reads \in Seq(Nat) /\ c \in watcher /\ Len(calls[c]) \in Nat
  <2>1. watch[c] # <<>> /\ w.reads # <<>> /\ inbound[c] # <<>> /\ c \in watcher
    BY <1>4 DEF Stage, IsAt, Watched, w
  <2>2. /\ inbound[c] \in Seq(Nat) /\ calls[c] \in Seq(Nat \X Nat) /\ added.reads[c] \in Nat
        /\ watch[c] = <<w>> /\ w \in Watches
    BY <1>1, <1>3, <2>1, MockFacts DEF w
  <2>3. w.reads \in Seq(Nat)
    BY <2>2 DEF Watches
  <2> QED BY <2>1, <2>2, <2>3, SeqEmpty
<1>6. /\ added.reads[c] = Len(calls[c]) + Len(w.reads) /\ \A i \in DOMAIN w.reads : w.reads[i] = Len(calls[c]) + i
      /\ w.reads[1] = Len(calls[c]) + 1 /\ inbound[c][1] = Len(calls[c]) + 1
      /\ messages[c] = Len(calls[c]) + Len(inbound[c])
      /\ \A i \in DOMAIN inbound[c] : inbound[c][i] = Len(calls[c]) + i
  <2>1. Popped(c) = Len(calls[c])
    BY <1>4 DEF Popped
  <2>2. 1 \in DOMAIN w.reads /\ 1 \in DOMAIN inbound[c]
    BY <1>5, SmallFacts
  <2> QED BY <1>4, <1>5, <2>1, <2>2 DEF Queued, Numbered, w
<1>10. /\ inbound'[c] = Tail(inbound[c]) /\ calls'[c] = Append(calls[c], <<n + 1, n + 1>>)
       /\ \A d \in Conns : d # c => inbound'[d] = inbound[d] /\ calls'[d] = calls[d]
  <2>1. /\ inbound \in [Conns -> Seq(Nat)] /\ calls \in [Conns -> Seq(Nat \X Nat)]
    BY <1>1 DEF MockTypes
  <2>2. inbound'[c] = Tail(inbound[c]) /\ \A d \in Conns : d # c => inbound'[d] = inbound[d]
    BY <1>2, <2>1
  <2>4. w.reads[1] = n + 1 /\ inbound[c][1] = n + 1
    BY <1>6 DEF n
  <2>5. calls' = [calls EXCEPT ![c] = Append(@, <<n + 1, n + 1>>)]
    BY <1>2, <2>4
  <2>6. calls'[c] = Append(calls[c], <<n + 1, n + 1>>) /\ \A d \in Conns : d # c => calls'[d] = calls[d]
    BY <2>1, <2>5
  <2> QED BY <2>2, <2>6
<1>11. /\ inbound'[c] \in Seq(Nat) /\ Len(inbound'[c]) = Len(inbound[c]) - 1 /\ Len(inbound[c]) \in Nat
       /\ DOMAIN inbound[c] = 1 .. Len(inbound[c]) /\ DOMAIN inbound'[c] = 1 .. Len(inbound[c]) - 1
       /\ \A i \in 1 .. Len(inbound[c]) - 1 : inbound'[c][i] = inbound[c][i + 1]
  <2>1. inbound[c] \in Seq(Nat) /\ inbound[c] # <<>> /\ inbound'[c] = Tail(inbound[c])
    BY <1>5, <1>10
  <2> QED BY <2>1, SeqTail
<1>12. n \in Nat /\ n + 1 \in Nat
  BY <1>5, SmallFacts, SMTT(30) DEF n
<1>13. /\ calls'[c] \in Seq(Nat \X Nat) /\ Len(calls'[c]) = n + 1
       /\ DOMAIN calls[c] = 1 .. n /\ DOMAIN calls'[c] = 1 .. n + 1
       /\ \A i \in 1 .. n : calls'[c][i] = calls[c][i]
       /\ calls'[c][n + 1] = <<n + 1, n + 1>>
  <2>1. <<n + 1, n + 1>> \in Nat \X Nat
    BY <1>12
  <2>2. calls[c] \in Seq(Nat \X Nat) /\ calls'[c] = Append(calls[c], <<n + 1, n + 1>>)
    BY <1>5, <1>10
  <2> QED BY <2>1, <2>2, SeqAppend DEF n
<1>14. MockTypes'
  <2>1. inbound' \in [Conns -> Seq(Nat)]
    <3>1. inbound \in [Conns -> Seq(Nat)] /\ Tail(inbound[c]) \in Seq(Nat)
      BY <1>1, <1>10, <1>11 DEF MockTypes
    <3> QED BY <1>2, <3>1
  <2>2. calls' \in [Conns -> Seq(Nat \X Nat)]
    <3>1. /\ calls \in [Conns -> Seq(Nat \X Nat)] /\ calls' = [calls EXCEPT ![c] = calls'[c]]
      BY <1>1, <1>2 DEF MockTypes
    <3> QED BY <1>13, <3>1
  <2>4. at' \in {<<>>} \cup {<<p>> : p \in Places}
    BY <1>2, <1>3 DEF Places
  <2> QED BY <1>1, <1>2, <2>1, <2>2, <2>4 DEF MockTypes
<1>15. /\ IsAt(c, {"read done"})' /\ IsAt(c, {"read", "read done"})' /\ IsAt(c, AllStages)'
       /\ ~IsAt(c, {"read"})' /\ ~IsAt(c, {"write"})'
       /\ \A d \in Conns : d # c => \A S \in SUBSET AllStages : ~IsAt(d, S)'
  BY <1>2 DEF IsAt, AllStages
<1>16. /\ {"read"} \in SUBSET AllStages /\ {"read done"} \in SUBSET AllStages /\ {"write"} \in SUBSET AllStages
       /\ {"read", "read done"} \in SUBSET AllStages /\ {"read", "read done", "write"} = AllStages
  BY DEF AllStages
<1>17. ASSUME NEW d \in Conns, d # c
       PROVE  Numbered(d)' /\ Queued(d)' /\ Stage(d)' /\ Watched(d)' /\ \A i \in DOMAIN calls'[d] : calls'[d][i] = <<i, i>>
  <2>1. Numbered(d) /\ Queued(d) /\ Watched(d) /\ \A i \in DOMAIN calls[d] : calls[d][i] = <<i, i>>
    BY DEF MockInv
  <2>2. \A S \in SUBSET AllStages : ~IsAt(d, S) /\ ~IsAt(d, S)'
    BY <1>3, <1>15, <1>17
  <2>3. /\ inbound'[d] = inbound[d] /\ calls'[d] = calls[d] /\ watch' = watch /\ added' = added
        /\ messages' = messages /\ watcher' = watcher /\ late' = late /\ (Notified(d) <=> Notified(d)')
    BY <1>2, <1>10, <1>17 DEF Notified
  <2>4. Popped(d) = Len(calls[d]) /\ Popped(d)' = Len(calls[d])
    BY <1>16, <2>2, <2>3 DEF Popped
  <2>5. Numbered(d)'
    BY <2>1, <2>3 DEF Numbered
  <2>6. Queued(d)'
    BY <2>1, <2>3, <2>4 DEF Queued
  <2>7. Stage(d)'
    BY <1>16, <2>2 DEF Stage
  <2>8. Watched(d)'
    BY <1>16, <2>1, <2>2, <2>3 DEF Watched
  <2> QED BY <2>1, <2>3, <2>5, <2>6, <2>7, <2>8
<1>18. Numbered(c)' /\ Queued(c)' /\ Stage(c)' /\ Watched(c)' /\ \A i \in DOMAIN calls'[c] : calls'[c][i] = <<i, i>>
  <2>1. Numbered(c)'
    <3>1. messages'[c] = Len(calls'[c]) + Len(inbound'[c])
      <4>1. messages[c] = n + Len(inbound[c])
        BY <1>6 DEF n
      <4>2. n \in Nat /\ Len(inbound[c]) \in Nat
        BY <1>11, <1>12
      <4>3. n + Len(inbound[c]) = (n + 1) + (Len(inbound[c]) - 1)
        BY <4>2, MoveOne
      <4> QED BY <1>2, <1>11, <1>13, <4>1, <4>3
    <3>2. ASSUME NEW i \in 1 .. Len(inbound[c]) - 1 PROVE inbound'[c][i] = Len(calls'[c]) + i
      <4>1. i + 1 \in DOMAIN inbound[c]
        BY <1>11
      <4>2. inbound[c][i + 1] = n + (i + 1)
        BY <1>6, <4>1 DEF n
      <4>3. n + (i + 1) = (n + 1) + i
        BY <1>12
      <4> QED BY <1>11, <1>13, <4>2, <4>3
    <3> QED BY <1>11, <3>1, <3>2 DEF Numbered
  <2>2. Queued(c)'
    <3>1. Popped(c)' = n
      <4>1. Popped(c)' = Len(calls'[c]) - 1
        BY <1>15 DEF Popped
      <4> QED BY <1>12, <1>13, <4>1
    <3>2. watch' = watch /\ added' = added
      BY <1>2
    <3>3. added.reads[c] = n + Len(w.reads) /\ \A i \in DOMAIN w.reads : w.reads[i] = n + i
      BY <1>6 DEF n
    <3> QED BY <1>5, <3>1, <3>2, <3>3 DEF Queued, w
  <2>3. Stage(c)'
    BY <1>2, <1>5, <1>15 DEF Stage, w
  <2>4. Watched(c)'
    BY <1>2, <1>5, <1>15, <1>16 DEF Watched, w
  <2>5. ASSUME NEW i \in 1 .. n + 1 PROVE calls'[c][i] = <<i, i>>
    <3>1. CASE i = n + 1
      BY <1>13, <3>1
    <3>2. CASE i # n + 1
      <4>1. i \in 1 .. n
        BY <1>12, <3>2
      <4> QED BY <1>3, <1>13, <4>1 DEF MockInv
    <3> QED BY <3>1, <3>2
  <2> QED BY <1>13, <2>1, <2>2, <2>3, <2>4, <2>5
<1>19. ASSUME NEW d \in Conns
       PROVE  Numbered(d)' /\ Queued(d)' /\ Stage(d)' /\ Watched(d)' /\ \A i \in DOMAIN calls'[d] : calls'[d][i] = <<i, i>>
  BY <1>17, <1>18
<1> QED BY <1>14, <1>19 DEF MockInv

\* The callback is taken off after it was called.
LEMMA ReadDoneKeeps ==
    ASSUME MockInv, ReadDone
    PROVE  MockInv'
<1>1. MockTypes
  BY DEF MockInv
<1>0. at # <<>> /\ at[1].c \in Conns
  <2>1. at # <<>>
    BY DEF ReadDone
  <2> QED BY <1>1, <2>1, OnePlace
<1> PICK c \in Conns : c = at[1].c
  BY <1>0
<1> DEFINE w == watch[c][1]
           x == [w EXCEPT !.reads = Tail(@)]
<1> HIDE DEF w, x
<1>2. /\ at # <<>> /\ at[1].stage = "read done" /\ Follows(c, x, "read", inbound[c])
      /\ UNCHANGED <<inbound, messages, notify, added, calls, late>>
  BY DEF ReadDone, w, x
<1>3. \A d \in Conns : d # c => \A S \in SUBSET AllStages : ~IsAt(d, S)
  BY <1>1, <1>2, OnePlace
<1>4. IsAt(c, {"read done"}) /\ Queued(c) /\ Stage(c) /\ Watched(c)
  BY <1>2, <1>3 DEF MockInv, IsAt
<1>5. /\ watch[c] # <<>> /\ w.reads # <<>> /\ w \in Watches /\ w.reads \in Seq(Nat) /\ c \in watcher
      /\ Len(calls[c]) \in Nat
  <2>1. watch[c] # <<>> /\ w.reads # <<>> /\ c \in watcher
    BY <1>4 DEF Stage, IsAt, Watched, w
  <2>2. w \in Watches /\ calls[c] \in Seq(Nat \X Nat)
    BY <1>1, <1>3, <2>1, MockFacts DEF w
  <2>3. w.reads \in Seq(Nat)
    BY <2>2 DEF Watches
  <2> QED BY <2>1, <2>2, <2>3, SeqEmpty
<1>6. /\ Tail(w.reads) \in Seq(Nat) /\ Len(Tail(w.reads)) = Len(w.reads) - 1 /\ Len(w.reads) \in Nat
      /\ DOMAIN w.reads = 1 .. Len(w.reads) /\ DOMAIN Tail(w.reads) = 1 .. Len(w.reads) - 1
      /\ \A i \in 1 .. Len(w.reads) - 1 : Tail(w.reads)[i] = w.reads[i + 1]
  BY <1>5, SeqTail
<1>7. x \in Watches /\ x.reads = Tail(w.reads)
  <2>1. x = [reads |-> Tail(w.reads), writes |-> w.writes] /\ x \in Watches
    BY <1>5, <1>6, WatchExcept DEF x
  <2> QED BY <2>1
<1>8. /\ added.reads[c] = (Len(calls[c]) - 1) + Len(w.reads)
      /\ \A i \in DOMAIN w.reads : w.reads[i] = (Len(calls[c]) - 1) + i
  <2>1. Popped(c) = Len(calls[c]) - 1
    BY <1>4 DEF Popped
  <2> QED BY <1>4, <1>5, <2>1 DEF Queued, w
<1>9. added.reads[c] = Len(calls[c]) + Len(x.reads)
  <2>1. Len(calls[c]) \in Nat /\ Len(w.reads) \in Nat
    BY <1>5, <1>6
  <2>2. (Len(calls[c]) - 1) + Len(w.reads) = Len(calls[c]) + (Len(w.reads) - 1)
    BY <2>1, MoveOne
  <2> QED BY <1>6, <1>7, <1>8, <2>2
<1>10. ASSUME NEW i \in DOMAIN x.reads PROVE x.reads[i] = Len(calls[c]) + i
  <2>1. i \in 1 .. Len(w.reads) - 1 /\ i + 1 \in DOMAIN w.reads
    BY <1>6, <1>7
  <2>2. w.reads[i + 1] = (Len(calls[c]) - 1) + (i + 1)
    BY <1>8, <2>1
  <2>3. (Len(calls[c]) - 1) + (i + 1) = Len(calls[c]) + i
    <3>1. Len(calls[c]) \in Nat /\ i \in Nat
      BY <1>5, <2>1
    <3> QED BY <3>1, MoveOne
  <2> QED BY <1>6, <1>7, <2>1, <2>2, <2>3
<1>11. notify' \in Seq(Conns \cup {0}) /\ \A d \in Conns : Notified(d) => Notified(d)'
  BY <1>1, <1>2 DEF MockTypes, Notified
<1> QED BY <1>2, <1>3, <1>5, <1>7, <1>9, <1>10, <1>11, FollowsKeeps

\* After the last read callback, a message that comes in has notified.
LEMMA WriteCallbackKeeps ==
    ASSUME MockInv, WriteCallback
    PROVE  MockInv'
<1>1. MockTypes
  BY DEF MockInv
<1>0. at # <<>> /\ at[1].c \in Conns
  <2>1. at # <<>>
    BY DEF WriteCallback
  <2> QED BY <1>1, <2>1, OnePlace
<1> PICK c \in Conns : c = at[1].c
  BY <1>0
<1> DEFINE w == watch[c][1]
           x == [w EXCEPT !.writes = Tail(@)]
<1> HIDE DEF w, x
<1>2. /\ at # <<>> /\ at[1].stage = "write" /\ Follows(c, x, "write", inbound[c])
      /\ UNCHANGED <<inbound, messages, notify, added, calls, late>>
  BY DEF WriteCallback, w, x
<1>3. \A d \in Conns : d # c => \A S \in SUBSET AllStages : ~IsAt(d, S)
  BY <1>1, <1>2, OnePlace
<1>4. /\ IsAt(c, {"write"}) /\ ~IsAt(c, {"read done"}) /\ ~IsAt(c, {"read", "read done"})
      /\ Queued(c) /\ Stage(c) /\ Watched(c)
  BY <1>2, <1>3 DEF MockInv, IsAt
<1>5. watch[c] # <<>> /\ w.writes # <<>> /\ w \in Watches /\ w.writes \in Seq(Nat) /\ c \in watcher
  <2>1. watch[c] # <<>> /\ w.writes # <<>> /\ c \in watcher
    BY <1>4 DEF Stage, IsAt, Watched, w
  <2>2. w \in Watches
    BY <1>1, <1>3, <2>1, MockFacts DEF w
  <2>3. w.writes \in Seq(Nat)
    BY <2>2 DEF Watches
  <2> QED BY <2>1, <2>2, <2>3
<1>6. Tail(w.writes) \in Seq(Nat)
  BY <1>5, SeqTail
<1>7. x \in Watches /\ x.reads = w.reads
  <2>1. x = [reads |-> w.reads, writes |-> Tail(w.writes)] /\ x \in Watches
    BY <1>5, <1>6, WatchExcept DEF x
  <2> QED BY <2>1
<1>8. /\ added.reads[c] = Len(calls[c]) + Len(x.reads)
      /\ \A i \in DOMAIN x.reads : x.reads[i] = Len(calls[c]) + i
  <2>1. Popped(c) = Len(calls[c])
    BY <1>4 DEF Popped
  <2> QED BY <1>4, <1>5, <1>7, <2>1 DEF Queued, w
<1>9. notify' \in Seq(Conns \cup {0}) /\ \A d \in Conns : Notified(d) => Notified(d)'
  BY <1>1, <1>2 DEF MockTypes, Notified
<1>10. inbound[c] # <<>> /\ x.reads # <<>> => Notified(c)' \/ c \in late
  BY <1>3, <1>4, <1>5, <1>7, <1>9 DEF Watched, w
<1> QED BY <1>2, <1>3, <1>5, <1>7, <1>8, <1>9, <1>10, FollowsKeeps

\* A step that changes nothing.
LEMMA StutterKeeps == MockInv /\ UNCHANGED mockVars => MockInv'
<1> SUFFICES ASSUME MockInv, UNCHANGED mockVars PROVE MockInv'
  OBVIOUS
<1>1. MockTypes'
  BY DEF MockInv, MockTypes, mockVars
<1>2. ASSUME NEW d \in Conns PROVE Numbered(d)' /\ Queued(d)' /\ Stage(d)' /\ Watched(d)'
  <2>1. Numbered(d) /\ Queued(d) /\ Stage(d) /\ Watched(d)
    BY DEF MockInv
  <2> QED BY <2>1 DEF Numbered, Queued, Popped, Stage, Watched, IsAt, Notified, mockVars
<1> QED BY <1>1, <1>2 DEF MockInv, mockVars

\* The invariant holds in every state, whatever the order of messages and callbacks.
THEOREM MockInvariant ==
    ASSUME 0 \notin Conns
    PROVE  Spec => []MockInv
<1>1. MockInv /\ [Next]_mockVars => MockInv'
  <2> SUFFICES ASSUME MockInv, [Next]_mockVars PROVE MockInv'
    OBVIOUS
  <2>1. ASSUME NEW c \in Conns, InboundMsg(c) \/ AddRead(c) \/ AddWrite(c) PROVE MockInv'
    BY <2>1, InboundKeeps, AddReadKeeps, AddWriteKeeps
  <2>2. CASE Interrupt
    BY <2>2, InterruptKeeps
  <2>3. CASE DispatchOne
    BY <2>3, DispatchKeeps
  <2>4. CASE ReadCallback
    BY <2>4, ReadCallbackKeeps
  <2>5. CASE ReadDone
    BY <2>5, ReadDoneKeeps
  <2>6. CASE WriteCallback
    BY <2>6, WriteCallbackKeeps
  <2>7. CASE UNCHANGED mockVars
    BY <2>7, StutterKeeps
  <2> QED BY <2>1, <2>2, <2>3, <2>4, <2>5, <2>6, <2>7 DEF Next, Dispatching
<1> QED BY <1>1, StartMock, PTL DEF Spec

\* mock::Dispatcher forgets no message for which a callback waits, at a connection to
\* which no write callback of its own has added a read, whoever adds the callbacks.
THEOREM MockWakesUp ==
    ASSUME 0 \notin Conns
    PROVE  Spec => []NoLostWakeup
<1>1. MockInv => NoLostWakeup
  BY DEF MockInv, NoLostWakeup, Remembered, Watched, Notified, IsAt
<1> QED BY <1>1, MockInvariant, PTL

\* mock::Connection: the i-th callback is called with the i-th message, and in this order.
THEOREM MockCallsInOrder ==
    ASSUME 0 \notin Conns
    PROVE  Spec => []CallsInOrder
<1>1. MockInv => CallsInOrder
  BY DEF MockInv, CallsInOrder
<1> QED BY <1>1, MockInvariant, PTL
==============================================================================
