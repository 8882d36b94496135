-------------------------- MODULE BlacklistProofs --------------------------
(***************************************************************************)
(* Proofs about channel blacklists, for any nodes and neighbourhoods, any  *)
(* channels, lifetime, interval, delay of a SIGNAL and size of the pools.  *)
(***************************************************************************)
EXTENDS Blacklist, CommonLemmas

(* No neighbour of a node that blacklists does so itself. In this program  *)
(* only the root blacklists. Of two that do, each would refresh its own    *)
(* entry, by what is left in a SIGNAL, for one that the other has heard of *)
(* and keeps longer.                                                       *)
OneSided == \A n \in Blacklisters : Nbrs[n] \cap Blacklisters = {}

Signal == [chs : SUBSET sfsb_channels, age : 0 .. MaxAge, there : BOOLEAN]
Received == [chs : SUBSET sfsb_channels, age : 0 .. MaxAge]

Typed ==
  /\ private \in [Nodes -> [sfsb_channels -> Units \cup {Absent}]]
  /\ heard \in [Nodes -> [Nodes -> [sfsb_channels -> [Units -> Nat]]]]
  /\ queue \in [Nodes -> [Nodes -> Seq(Signal)]]
  /\ inbox \in [Nodes -> [Nodes -> Seq(Received)]]
  /\ posted \subseteq Blacklisters

(* Others than blacklisters have no entries, and nothing to tell.          *)
FromBlacklisters ==
  /\ \A n \in Nodes : n \notin Blacklisters => \A c \in sfsb_channels : private[n][c] = Absent
  /\ \A n, m \in Nodes : queue[n][m] # <<>> => n \in Blacklisters /\ m \in Nbrs[n]
  /\ \A n, m \in Nodes : inbox[n][m] # <<>> => m \in Blacklisters /\ n \in Nbrs[m]

(* Until the distribution process has run, entries are new.                *)
New(n) == \A c \in sfsb_channels : private[n][c] \in {Lifetime, Absent}

(* The entries of n for channels chs have left units or more to live.      *)
Backed(n, chs, left) == \A c \in chs : private[n][c] # Absent /\ left <= private[n][c]

(* What a SIGNAL under way will leave at its receiver, the sender has.     *)
SignalsBacked ==
  \A n, m \in Nodes :
    /\ \A i \in DOMAIN queue[n][m] : Backed(n, queue[n][m][i].chs, Lifetime - queue[n][m][i].age)
    /\ \A i \in DOMAIN inbox[n][m] : Backed(m, inbox[n][m][i].chs, Lifetime - inbox[n][m][i].age)

IInv ==
  /\ Typed
  /\ FromBlacklisters
  /\ \A n \in posted : New(n)
  /\ SignalsBacked
  /\ NeverOutlives
-----------------------------------------------------------------------------
LEMMA Constants ==
  /\ Nbrs \in [Nodes -> SUBSET Nodes] /\ Blacklisters \subseteq Nodes
  /\ Lifetime \in Nat \ {0} /\ MaxAge \in Nat \ {0} /\ MaxAge < Lifetime
  /\ Units = 0 .. Lifetime /\ Absent = Lifetime + 1 /\ Absent \notin Units
  /\ \A p \in Pairs : p[1] \in Nodes /\ p[2] \in Nodes /\ p[2] \in Nbrs[p[1]]
<1>1. Lifetime \in Nat \ {0} /\ MaxAge \in 1 .. Lifetime - 1 /\ Nbrs \in [Nodes -> SUBSET Nodes]
      /\ Blacklisters \subseteq Nodes
  BY BlacklistAssumption
<1>2. Units = 0 .. Lifetime /\ Absent = Lifetime + 1
  BY DEF Units, Absent
<1> QED BY <1>1, <1>2 DEF Pairs

(* An entry that stays as it is, or starts its timer again, still backs.   *)
LEMMA StaysBacked ==
  ASSUME Typed, NEW n \in Nodes, NEW chs \in SUBSET sfsb_channels, NEW left \in Int, left <= Lifetime,
         Backed(n, chs, left),
         \A c \in sfsb_channels : private'[n][c] \in {private[n][c], Lifetime}
  PROVE  Backed(n, chs, left)'
<1> SUFFICES ASSUME NEW c \in chs PROVE private'[n][c] # Absent /\ left <= private'[n][c]
  BY DEF Backed
<1>1. private[n][c] # Absent /\ left <= private[n][c] /\ private'[n][c] \in {private[n][c], Lifetime}
  BY DEF Backed
<1> QED BY <1>1, Constants

(* The parts of a SIGNAL.                                                  *)
LEMMA SignalFacts ==
  ASSUME Typed, NEW n \in Nodes, NEW m \in Nodes
  PROVE  /\ queue[n][m] \in Seq(Signal) /\ inbox[n][m] \in Seq(Received)
         /\ \A i \in DOMAIN queue[n][m] :
              /\ queue[n][m][i].chs \in SUBSET sfsb_channels /\ queue[n][m][i].age \in 0 .. MaxAge
              /\ Lifetime - queue[n][m][i].age \in 1 .. Lifetime
         /\ \A i \in DOMAIN inbox[n][m] :
              /\ inbox[n][m][i].chs \in SUBSET sfsb_channels /\ inbox[n][m][i].age \in 0 .. MaxAge
              /\ Lifetime - inbox[n][m][i].age \in 1 .. Lifetime
<1>1. queue[n][m] \in Seq(Signal) /\ inbox[n][m] \in Seq(Received)
  BY DEF Typed
<1>2. /\ \A i \in DOMAIN queue[n][m] : queue[n][m][i] \in Signal
      /\ \A i \in DOMAIN inbox[n][m] : inbox[n][m][i] \in Received
  BY <1>1, Places
<1>3. \A a \in 0 .. MaxAge : Lifetime - a \in 1 .. Lifetime
  BY Constants
<1> QED BY <1>1, <1>2, <1>3 DEF Signal, Received

(* Nothing is blacklisted yet.                                             *)
LEMMA InitIInv == Init => IInv
<1> SUFFICES ASSUME Init PROVE IInv
  OBVIOUS
<1>1. Typed
  <2>1. Absent \in Units \cup {Absent} /\ 0 \in Nat /\ <<>> \in Seq(Signal) /\ <<>> \in Seq(Received)
    BY EmptySeq
  <2> QED BY <2>1 DEF Init, Typed
<1>2. FromBlacklisters /\ \A n \in posted : New(n)
  BY DEF Init, FromBlacklisters
<1>3. SignalsBacked
  BY DEF Init, SignalsBacked
<1>4. NeverOutlives
  BY Constants DEF Init, NeverOutlives
<1> QED BY <1>1, <1>2, <1>3, <1>4 DEF IInv
-----------------------------------------------------------------------------
(* sfsb_bl_send, of entries that are new.                                  *)
LEMMA SendStep ==
  ASSUME IInv, NEW n \in Blacklisters, NEW tell \in SUBSET Nbrs[n], Send(n, tell),
         private' \in [Nodes -> [sfsb_channels -> Units \cup {Absent}]], New(n)',
         \A k \in Nodes, c \in sfsb_channels : private'[k][c] \in {private[k][c], Lifetime},
         \A k \in Nodes : k # n => private'[k] = private[k],
         UNCHANGED <<heard, inbox>>, posted' \subseteq posted \cup {n}
  PROVE  IInv'
<1>1. Typed /\ FromBlacklisters /\ SignalsBacked /\ NeverOutlives /\ \A k \in posted : New(k)
  BY DEF IInv
<1>2. n \in Nodes /\ Nbrs[n] \subseteq Nodes
  BY Constants
<1>3. PICK signal : signal = [chs |-> Entries(n)', age |-> 0, there |-> FALSE]
  OBVIOUS
<1>4. signal \in Signal /\ signal.chs = Entries(n)' /\ signal.age = 0
  <2>1. Entries(n)' \subseteq sfsb_channels
    BY DEF Entries
  <2>2. 0 \in 0 .. MaxAge
    BY Constants
  <2> QED BY <1>3, <2>1, <2>2 DEF Signal
<1>5. PICK to \in SUBSET tell :
        queue' = [queue EXCEPT ![n] = [m \in Nodes |-> IF m \in to THEN Append(@[m], signal) ELSE @[m]]]
  <2> DEFINE to == {m \in tell : cells[n][m] /\ Updated(n, m)' /\ ~open[n][m]}
  <2>1. queue' = [queue EXCEPT ![n] = [m \in Nodes |-> IF m \in to THEN Append(@[m], signal) ELSE @[m]]]
    BY <1>3 DEF Send
  <2>2. to \in SUBSET tell
    OBVIOUS
  <2> HIDE DEF to
  <2> QED BY <2>1, <2>2
<1>6. ASSUME NEW k \in Nodes, NEW m \in Nodes
      PROVE  /\ queue'[k][m] \in Seq(Signal)
             /\ \/ queue'[k][m] = queue[k][m]
                \/ k = n /\ m \in Nbrs[n] /\ queue'[k][m] = Append(queue[k][m], signal)
  <2>1. queue[k][m] \in Seq(Signal) /\ Append(queue[k][m], signal) \in Seq(Signal)
    BY <1>1, <1>4, SignalFacts, Appended
  <2>2. CASE k # n
    BY <1>1, <1>5, <2>1, <2>2 DEF Typed
  <2>3. CASE k = n
    <3>1. queue'[k][m] = IF m \in to THEN Append(queue[k][m], signal) ELSE queue[k][m]
      BY <1>1, <1>2, <1>5, <2>3 DEF Typed
    <3> QED BY <2>1, <2>3, <3>1
  <2> QED BY <2>2, <2>3
<1>7. Typed'
  <2>1. queue' \in [Nodes -> [Nodes -> Seq(Signal)]]
    <3>1. \A k \in Nodes : queue'[k] = [m \in Nodes |-> queue'[k][m]]
      <4> SUFFICES ASSUME NEW k \in Nodes PROVE queue'[k] = [m \in Nodes |-> queue'[k][m]]
        OBVIOUS
      <4>1. CASE k = n
        BY <1>1, <1>2, <1>5, <4>1 DEF Typed
      <4>2. CASE k # n
        BY <1>1, <1>5, <4>2 DEF Typed
      <4> QED BY <4>1, <4>2
    <3>2. queue' = [k \in Nodes |-> queue'[k]]
      BY <1>1, <1>5 DEF Typed
    <3>3. \A k \in Nodes : queue'[k] \in [Nodes -> Seq(Signal)]
      BY <1>6, <3>1
    <3> QED BY <3>2, <3>3
  <2> QED BY <1>1, <2>1 DEF Typed
<1>8. FromBlacklisters'
  <2>1. \A k \in Nodes : k \notin Blacklisters => \A c \in sfsb_channels : private'[k][c] = Absent
    BY <1>1 DEF FromBlacklisters
  <2>2. \A k, m \in Nodes : queue'[k][m] # <<>> => k \in Blacklisters /\ m \in Nbrs[k]
    BY <1>1, <1>6 DEF FromBlacklisters
  <2> QED BY <1>1, <2>1, <2>2 DEF FromBlacklisters
<1>9. \A k \in posted' : New(k)'
  <2> SUFFICES ASSUME NEW k \in posted', k # n PROVE New(k)'
    OBVIOUS
  <2>1. k \in posted /\ k \in Nodes
    BY <1>1, Constants DEF Typed
  <2>2. New(k) /\ private'[k] = private[k]
    BY <1>1, <2>1
  <2> QED BY <2>2 DEF New
<1>10. SignalsBacked'
  <2>1. ASSUME NEW k \in Nodes, NEW m \in Nodes, NEW i \in DOMAIN inbox[k][m]
        PROVE  Backed(m, inbox[k][m][i].chs, Lifetime - inbox[k][m][i].age)'
    <3>1. PICK s \in Received : s = inbox[k][m][i]
      BY <1>1, SignalFacts, Places
    <3>2. /\ s.chs \in SUBSET sfsb_channels /\ Lifetime - s.age \in Int /\ Lifetime - s.age <= Lifetime
          /\ Backed(m, s.chs, Lifetime - s.age)
      BY <1>1, <3>1, SignalFacts DEF SignalsBacked
    <3>3. Backed(m, s.chs, Lifetime - s.age)'
      BY <1>1, <3>2, StaysBacked
    <3> QED BY <3>1, <3>3 DEF Backed
  <2>2. ASSUME NEW k \in Nodes, NEW m \in Nodes, NEW i \in DOMAIN queue'[k][m]
        PROVE  Backed(k, queue[k][m][i].chs, Lifetime - queue[k][m][i].age)'
    <3>1. PICK s \in Signal : s = queue'[k][m][i]
      BY <1>6, Places
    <3>2. CASE i \in DOMAIN queue[k][m] /\ s = queue[k][m][i]
      <4>1. /\ s.chs \in SUBSET sfsb_channels /\ Lifetime - s.age \in Int /\ Lifetime - s.age <= Lifetime
            /\ Backed(k, s.chs, Lifetime - s.age)
        BY <1>1, <3>2, SignalFacts DEF SignalsBacked
      <4>2. Backed(k, s.chs, Lifetime - s.age)'
        BY <1>1, <4>1, StaysBacked
      <4> QED BY <3>1, <4>2 DEF Backed
    <3>3. CASE k = n /\ s = signal
      <4>1. \A c \in s.chs : private'[n][c] # Absent /\ private'[n][c] = Lifetime
        BY <1>4, <3>3 DEF Entries, New
      <4>2. Lifetime - s.age = Lifetime
        BY <1>4, <3>3, Constants
      <4>3. Backed(k, s.chs, Lifetime - s.age)'
        BY <3>3, <4>1, <4>2, Constants DEF Backed
      <4> QED BY <3>1, <4>3 DEF Backed
    <3>4. \/ i \in DOMAIN queue[k][m] /\ s = queue[k][m][i]
          \/ k = n /\ s = signal
      <4>1. queue[k][m] \in Seq(Signal)
        BY <1>1, SignalFacts
      <4>2. CASE queue'[k][m] = queue[k][m]
        BY <3>1, <4>2
      <4>3. CASE k = n /\ queue'[k][m] = Append(queue[k][m], signal)
        BY <1>4, <3>1, <4>1, <4>3, Appended, Places
      <4> QED BY <1>6, <4>2, <4>3
    <3> QED BY <3>2, <3>3, <3>4
  <2> QED BY <2>1, <2>2 DEF SignalsBacked
<1>11. NeverOutlives'
  <2> SUFFICES ASSUME NEW p \in Pairs, NEW c \in sfsb_channels, NEW u \in Units, u > 0, heard[p[1]][p[2]][c][u] > 0
               PROVE  private'[p[2]][c] # Absent /\ u <= private'[p[2]][c]
    BY DEF NeverOutlives
  <2>1. private[p[2]][c] # Absent /\ u <= private[p[2]][c] /\ private'[p[2]][c] \in {private[p[2]][c], Lifetime}
    BY <1>1, Constants DEF NeverOutlives
  <2> QED BY <2>1, Constants
<1> QED BY <1>7, <1>8, <1>9, <1>10, <1>11 DEF IInv

LEMMA RoundStep ==
  ASSUME IInv, NEW n \in Nodes, NEW tell \in SUBSET Nbrs[n], Round(n, tell)
  PROVE  IInv'
<1>1. n \in Blacklisters /\ AddUpdate(n, sfsb_channels) /\ Send(n, tell)
      /\ UNCHANGED <<heard, inbox>> /\ posted' = posted \cup {n}
  BY DEF Round
<1>2. private \in [Nodes -> [sfsb_channels -> Units \cup {Absent}]] /\ Lifetime \in Units
  BY Constants DEF IInv, Typed
<1>3. PICK new \in Allocated(sfsb_channels \ Entries(n), PrivatePool - Cardinality(Entries(n))) :
        private' = [private EXCEPT ![n] =
          [c \in sfsb_channels |-> IF c \in (sfsb_channels \cap Entries(n)) \cup new THEN Lifetime ELSE @[c]]]
  BY <1>1 DEF AddUpdate
<1>4. private' \in [Nodes -> [sfsb_channels -> Units \cup {Absent}]]
  BY <1>2, <1>3
<1>5. \A k \in Nodes : k # n => private'[k] = private[k]
  BY <1>2, <1>3
<1>6. \A c \in sfsb_channels :
        private'[n][c] = IF c \in (sfsb_channels \cap Entries(n)) \cup new THEN Lifetime ELSE private[n][c]
  BY <1>2, <1>3
<1>7. \A k \in Nodes, c \in sfsb_channels : private'[k][c] \in {private[k][c], Lifetime}
  BY <1>5, <1>6
<1>8. New(n)'
  BY <1>6 DEF New, Entries
<1> QED BY <1>1, <1>4, <1>5, <1>7, <1>8, SendStep

LEMMA DistributeStep ==
  ASSUME IInv, NEW n \in Nodes, NEW tell \in SUBSET Nbrs[n], Distribute(n, tell)
  PROVE  IInv'
<1>1. n \in posted /\ Send(n, tell) /\ UNCHANGED <<private, heard, inbox>> /\ posted' = posted \ {n}
  BY DEF Distribute, lists
<1>2. n \in Blacklisters /\ New(n) /\ private \in [Nodes -> [sfsb_channels -> Units \cup {Absent}]]
  BY <1>1 DEF IInv, Typed
<1>3. New(n)'
  BY <1>1, <1>2 DEF New
<1> QED BY <1>1, <1>2, <1>3, SendStep
-----------------------------------------------------------------------------
(* What changes neither lists nor SIGNALs.                                 *)
LEMMA OtherStep ==
  ASSUME IInv, UNCHANGED <<private, heard, queue, inbox, posted>>
  PROVE  IInv'
<1>1. Typed' /\ FromBlacklisters' /\ SignalsBacked'
  BY DEF IInv, Typed, FromBlacklisters, SignalsBacked, Backed
<1>2. (\A n \in posted : New(n))' /\ NeverOutlives'
  BY DEF IInv, New, NeverOutlives
<1> QED BY <1>1, <1>2 DEF IInv

(* Each SIGNAL in s is one of t, but for whether it has got there.         *)
Among(s, t) ==
  /\ s # <<>> => t # <<>>
  /\ \A i \in DOMAIN s : \E j \in DOMAIN t : s[i].chs = t[j].chs /\ s[i].age = t[j].age

AmongBoth(s, t, q) ==
  /\ s # <<>> => t # <<>> \/ q # <<>>
  /\ \A i \in DOMAIN s : \/ \E j \in DOMAIN t : s[i].chs = t[j].chs /\ s[i].age = t[j].age
                         \/ \E j \in DOMAIN q : s[i].chs = q[j].chs /\ s[i].age = q[j].age

LEMMA FewerSignals ==
  ASSUME IInv, UNCHANGED <<private, heard, posted>>,
         queue' \in [Nodes -> [Nodes -> Seq(Signal)]], inbox' \in [Nodes -> [Nodes -> Seq(Received)]],
         \A n, m \in Nodes : Among(queue'[n][m], queue[n][m]),
         \A n, m \in Nodes : AmongBoth(inbox'[n][m], inbox[n][m], queue[m][n])
  PROVE  IInv'
<1> USE DEF Among, AmongBoth
<1>1. Typed /\ FromBlacklisters /\ SignalsBacked /\ NeverOutlives /\ \A k \in posted : New(k)
  BY DEF IInv
<1>2. Typed'
  BY <1>1 DEF Typed
<1>3. FromBlacklisters'
  <2>1. \A n, m \in Nodes : queue'[n][m] # <<>> => n \in Blacklisters /\ m \in Nbrs[n]
    BY <1>1 DEF FromBlacklisters
  <2>2. \A n, m \in Nodes : inbox'[n][m] # <<>> => m \in Blacklisters /\ n \in Nbrs[m]
    BY <1>1 DEF FromBlacklisters
  <2> QED BY <1>1, <2>1, <2>2 DEF FromBlacklisters
<1>4. (\A n \in posted : New(n))' /\ NeverOutlives'
  BY <1>1 DEF New, NeverOutlives
<1>5. SignalsBacked'
  <2>1. ASSUME NEW n \in Nodes, NEW m \in Nodes, NEW i \in DOMAIN queue'[n][m]
        PROVE  Backed(n, queue[n][m][i].chs, Lifetime - queue[n][m][i].age)'
    <3>1. PICK j \in DOMAIN queue[n][m] : /\ queue'[n][m][i].chs = queue[n][m][j].chs
                                          /\ queue'[n][m][i].age = queue[n][m][j].age
      OBVIOUS
    <3>2. Backed(n, queue[n][m][j].chs, Lifetime - queue[n][m][j].age)
      BY <1>1 DEF SignalsBacked
    <3> QED BY <3>1, <3>2 DEF Backed
  <2>2. ASSUME NEW n \in Nodes, NEW m \in Nodes, NEW i \in DOMAIN inbox'[n][m]
        PROVE  Backed(m, inbox[n][m][i].chs, Lifetime - inbox[n][m][i].age)'
    <3>1. CASE \E j \in DOMAIN inbox[n][m] : /\ inbox'[n][m][i].chs = inbox[n][m][j].chs
                                             /\ inbox'[n][m][i].age = inbox[n][m][j].age
      <4>1. PICK j \in DOMAIN inbox[n][m] : /\ inbox'[n][m][i].chs = inbox[n][m][j].chs
                                            /\ inbox'[n][m][i].age = inbox[n][m][j].age
        BY <3>1
      <4>2. Backed(m, inbox[n][m][j].chs, Lifetime - inbox[n][m][j].age)
        BY <1>1 DEF SignalsBacked
      <4> QED BY <4>1, <4>2 DEF Backed
    <3>2. CASE \E j \in DOMAIN queue[m][n] : /\ inbox'[n][m][i].chs = queue[m][n][j].chs
                                             /\ inbox'[n][m][i].age = queue[m][n][j].age
      <4>1. PICK j \in DOMAIN queue[m][n] : /\ inbox'[n][m][i].chs = queue[m][n][j].chs
                                            /\ inbox'[n][m][i].age = queue[m][n][j].age
        BY <3>2
      <4>2. Backed(m, queue[m][n][j].chs, Lifetime - queue[m][n][j].age)
        BY <1>1 DEF SignalsBacked
      <4> QED BY <4>1, <4>2 DEF Backed
    <3> QED BY <3>1, <3>2
  <2> QED BY <2>1, <2>2 DEF SignalsBacked
<1> QED BY <1>2, <1>3, <1>4, <1>5 DEF IInv

(* One sequence of such a table replaced.                                  *)
LEMMA Replaced ==
  ASSUME NEW S, NEW f \in [Nodes -> [Nodes -> S]], NEW n \in Nodes, NEW m \in Nodes, NEW s \in S,
         NEW g, g = [f EXCEPT ![n][m] = s]
  PROVE  /\ g \in [Nodes -> [Nodes -> S]] /\ g[n][m] = s
         /\ \A k, l \in Nodes : k # n \/ l # m => g[k][l] = f[k][l]
OBVIOUS

(* Acked, NotAcked: the first SIGNAL leaves the queue.                     *)
LEMMA DequeueStep ==
  ASSUME IInv, NEW n \in Nodes, NEW m \in Nodes, queue[n][m] # <<>>,
         queue' = [queue EXCEPT ![n][m] = Tail(@)],
         UNCHANGED <<private, heard, inbox, posted>>
  PROVE  IInv'
<1>1. Typed /\ queue \in [Nodes -> [Nodes -> Seq(Signal)]] /\ inbox \in [Nodes -> [Nodes -> Seq(Received)]]
  BY DEF IInv, Typed
<1>2. queue[n][m] \in Seq(Signal)
  BY <1>1
<1>3. /\ Tail(queue[n][m]) \in Seq(Signal)
      /\ \A i \in DOMAIN Tail(queue[n][m]) :
           i + 1 \in DOMAIN queue[n][m] /\ Tail(queue[n][m])[i] = queue[n][m][i + 1]
  BY <1>2, HeadTaken
<1>4. /\ queue' \in [Nodes -> [Nodes -> Seq(Signal)]] /\ queue'[n][m] = Tail(queue[n][m])
      /\ \A k, l \in Nodes : k # n \/ l # m => queue'[k][l] = queue[k][l]
  <2>1. queue' = [queue EXCEPT ![n][m] = Tail(queue[n][m])]
    BY <1>1
  <2> QED BY <1>1, <1>3, <2>1, Replaced
<1>5. ASSUME NEW k \in Nodes, NEW l \in Nodes PROVE Among(queue'[k][l], queue[k][l])
  <2>1. CASE k = n /\ l = m
    BY <1>3, <1>4, <2>1 DEF Among
  <2>2. CASE k # n \/ l # m
    BY <1>4, <2>2 DEF Among
  <2> QED BY <2>1, <2>2
<1>6. inbox' = inbox /\ \A k, l \in Nodes : AmongBoth(inbox'[k][l], inbox[k][l], queue[l][k])
  BY DEF AmongBoth
<1> QED BY <1>1, <1>4, <1>5, <1>6, FewerSignals

(* 6P drops a SIGNAL.                                                      *)
LEMMA RefuseStep ==
  ASSUME IInv, NEW n \in Nodes, NEW m \in Nodes, Refuse(n, m)
  PROVE  IInv'
<1>1. Typed /\ queue \in [Nodes -> [Nodes -> Seq(Signal)]] /\ inbox \in [Nodes -> [Nodes -> Seq(Received)]]
  BY DEF IInv, Typed
<1>2. /\ inbox[n][m] # <<>> /\ inbox' = [inbox EXCEPT ![n][m] = Tail(@)]
      /\ UNCHANGED <<private, heard, queue, posted>>
  BY DEF Refuse, lists
<1>3. inbox[n][m] \in Seq(Received)
  BY <1>1
<1>4. /\ Tail(inbox[n][m]) \in Seq(Received)
      /\ \A i \in DOMAIN Tail(inbox[n][m]) :
           i + 1 \in DOMAIN inbox[n][m] /\ Tail(inbox[n][m])[i] = inbox[n][m][i + 1]
  BY <1>2, <1>3, HeadTaken
<1>5. /\ inbox' \in [Nodes -> [Nodes -> Seq(Received)]] /\ inbox'[n][m] = Tail(inbox[n][m])
      /\ \A k, l \in Nodes : k # n \/ l # m => inbox'[k][l] = inbox[k][l]
  <2>1. inbox' = [inbox EXCEPT ![n][m] = Tail(inbox[n][m])]
    BY <1>1, <1>2
  <2> QED BY <1>1, <1>4, <2>1, Replaced
<1>6. ASSUME NEW k \in Nodes, NEW l \in Nodes PROVE AmongBoth(inbox'[k][l], inbox[k][l], queue[l][k])
  <2>1. CASE k = n /\ l = m
    BY <1>2, <1>4, <1>5, <2>1 DEF AmongBoth
  <2>2. CASE k # n \/ l # m
    BY <1>5, <2>2 DEF AmongBoth
  <2> QED BY <2>1, <2>2
<1>7. queue' = queue /\ \A k, l \in Nodes : Among(queue'[k][l], queue[k][l])
  BY <1>2 DEF Among
<1> QED BY <1>1, <1>2, <1>5, <1>6, <1>7, FewerSignals

(* What arrives is what is in the queue.                                   *)
LEMMA ArriveStep ==
  ASSUME IInv, NEW n \in Nodes, NEW m \in Nodes, Arrive(n, m)
  PROVE  IInv'
<1>1. Typed /\ queue \in [Nodes -> [Nodes -> Seq(Signal)]] /\ inbox \in [Nodes -> [Nodes -> Seq(Received)]]
  BY DEF IInv, Typed
<1>2. /\ queue[n][m] # <<>>
      /\ queue' = [queue EXCEPT ![n][m][1].there = TRUE]
      /\ inbox' = [inbox EXCEPT ![m][n] =
           Append(@, [chs |-> Head(queue[n][m]).chs, age |-> Head(queue[n][m]).age])]
      /\ UNCHANGED <<private, heard, posted>>
  BY DEF Arrive, Under, lists
<1>3. queue[n][m] \in Seq(Signal) /\ inbox[m][n] \in Seq(Received)
  BY <1>1
<1>4. PICK s \in Signal : s = Head(queue[n][m]) /\ s = queue[n][m][1] /\ 1 \in DOMAIN queue[n][m]
  BY <1>2, <1>3, HeadTaken
<1>5. PICK r \in Received : r = [chs |-> s.chs, age |-> s.age]
  BY <1>4 DEF Signal, Received
<1>6. PICK q \in Seq(Signal) :
        /\ q = [queue[n][m] EXCEPT ![1].there = TRUE]
        /\ DOMAIN q = DOMAIN queue[n][m]
        /\ \A i \in DOMAIN queue[n][m] : q[i].chs = queue[n][m][i].chs /\ q[i].age = queue[n][m][i].age
  <2> DEFINE t == [s EXCEPT !.there = TRUE]
             q == [queue[n][m] EXCEPT ![1] = t]
  <2>1. t \in Signal /\ t.chs = s.chs /\ t.age = s.age
    BY <1>4 DEF Signal
  <2>2. DOMAIN queue[n][m] = 1 .. Len(queue[n][m])
    BY <1>3, Places
  <2>3. q \in Seq(Signal) /\ \A i \in DOMAIN queue[n][m] : q[i] = IF i = 1 THEN t ELSE queue[n][m][i]
    <3> HIDE DEF t
    <3> QED BY <1>3, <1>4, <2>1, <2>2, ExceptSeq
  <2>4. DOMAIN q = DOMAIN queue[n][m] /\ q = [queue[n][m] EXCEPT ![1].there = TRUE]
    BY <1>4
  <2> HIDE DEF q
  <2>5. \A i \in DOMAIN queue[n][m] : q[i].chs = queue[n][m][i].chs /\ q[i].age = queue[n][m][i].age
    BY <1>4, <2>1, <2>3
  <2> QED BY <2>3, <2>4, <2>5
<1>7. /\ queue' \in [Nodes -> [Nodes -> Seq(Signal)]] /\ queue'[n][m] = q
      /\ \A k, l \in Nodes : k # n \/ l # m => queue'[k][l] = queue[k][l]
  <2>1. queue' = [queue EXCEPT ![n][m] = q]
    BY <1>1, <1>2, <1>6
  <2> QED BY <1>1, <2>1, Replaced
<1>8. /\ inbox' \in [Nodes -> [Nodes -> Seq(Received)]] /\ inbox'[m][n] = Append(inbox[m][n], r)
      /\ \A k, l \in Nodes : k # m \/ l # n => inbox'[k][l] = inbox[k][l]
  <2>1. inbox' = [inbox EXCEPT ![m][n] = Append(inbox[m][n], r)]
    BY <1>1, <1>2, <1>4, <1>5
  <2>2. Append(inbox[m][n], r) \in Seq(Received)
    BY <1>3, Appended
  <2> QED BY <1>1, <2>1, <2>2, Replaced
<1>9. ASSUME NEW k \in Nodes, NEW l \in Nodes PROVE Among(queue'[k][l], queue[k][l])
  <2>1. CASE k = n /\ l = m
    BY <1>2, <1>6, <1>7, <2>1 DEF Among
  <2>2. CASE k # n \/ l # m
    BY <1>7, <2>2 DEF Among
  <2> QED BY <2>1, <2>2
<1>10. ASSUME NEW k \in Nodes, NEW l \in Nodes PROVE AmongBoth(inbox'[k][l], inbox[k][l], queue[l][k])
  <2>1. CASE k # m \/ l # n
    BY <1>8, <2>1 DEF AmongBoth
  <2>2. CASE k = m /\ l = n
    <3>1. ASSUME NEW i \in DOMAIN inbox'[m][n]
          PROVE  (i \in DOMAIN inbox[m][n] /\ inbox'[m][n][i] = inbox[m][n][i]) \/ inbox'[m][n][i] = r
      <4>1. /\ DOMAIN inbox[m][n] = 1 .. Len(inbox[m][n]) /\ Len(inbox[m][n]) \in Nat
            /\ DOMAIN inbox'[m][n] = 1 .. Len(inbox[m][n]) + 1
            /\ \A j \in DOMAIN inbox[m][n] : inbox'[m][n][j] = inbox[m][n][j]
            /\ inbox'[m][n][Len(inbox[m][n]) + 1] = r
        <5>1. inbox[m][n] \in Seq(Received) /\ inbox'[m][n] = Append(inbox[m][n], r)
          BY <1>3, <1>8
        <5> HIDE DEF Received
        <5> QED BY <5>1, Appended, Places
      <4>2. i \in DOMAIN inbox[m][n] \/ i = Len(inbox[m][n]) + 1
        BY <4>1
      <4> QED BY <4>1, <4>2
    <3>2. r.chs = queue[n][m][1].chs /\ r.age = queue[n][m][1].age /\ 1 \in DOMAIN queue[n][m]
      BY <1>4, <1>5
    <3>3. queue[l][k] # <<>>
      BY <1>2, <2>2
    <3>4. ASSUME NEW i \in DOMAIN inbox'[k][l]
          PROVE  \/ \E j \in DOMAIN inbox[k][l] : inbox'[k][l][i].chs = inbox[k][l][j].chs /\ inbox'[k][l][i].age = inbox[k][l][j].age
                 \/ \E j \in DOMAIN queue[l][k] : inbox'[k][l][i].chs = queue[l][k][j].chs /\ inbox'[k][l][i].age = queue[l][k][j].age
      BY <2>2, <3>1, <3>2
    <3> QED BY <3>3, <3>4 DEF AmongBoth
  <2> QED BY <2>1, <2>2
<1> QED BY <1>2, <1>7, <1>8, <1>9, <1>10, FewerSignals

(* sfsb_bl_unpack: the receiver does not blacklist, so that what it has    *)
(* itself is nothing, and it notes what the sender has.                    *)
LEMMA SignalReqInputStep ==
  ASSUME IInv, OneSided, NEW n \in Nodes, NEW m \in Nodes, SignalReqInput(n, m)
  PROVE  IInv'
<1>1. Typed /\ FromBlacklisters /\ SignalsBacked /\ NeverOutlives /\ \A k \in posted : New(k)
  BY DEF IInv
<1>2. /\ inbox[n][m] # <<>> /\ inbox' = [inbox EXCEPT ![n][m] = Tail(@)]
      /\ Unpack(n, m, Head(inbox[n][m])) /\ UNCHANGED <<queue, posted>>
  BY DEF SignalReqInput
<1>3. m \in Blacklisters /\ n \in Nbrs[m] /\ n \notin Blacklisters
  BY <1>1, <1>2 DEF FromBlacklisters, OneSided
<1>4. inbox[n][m] \in Seq(Received)
  BY <1>1, SignalFacts
<1>5. PICK s \in Received : s = Head(inbox[n][m]) /\ s = inbox[n][m][1] /\ 1 \in DOMAIN inbox[n][m]
  BY <1>2, <1>4, HeadTaken
<1>6. /\ Left(s) \in 1 .. Lifetime /\ Left(s) \in Units
      /\ \A c \in s.chs : c \in sfsb_channels /\ private[m][c] # Absent /\ Left(s) <= private[m][c]
  <2>1. Left(s) \in 1 .. Lifetime /\ s.chs \subseteq sfsb_channels /\ Backed(m, s.chs, Left(s))
    BY <1>1, <1>5, SignalFacts DEF SignalsBacked, Left
  <2> QED BY <2>1, Constants DEF Backed
<1>7. Entries(n) = {}
  BY <1>1, <1>3 DEF FromBlacklisters, Entries
<1>8. PICK new \in SUBSET s.chs :
        heard' = [heard EXCEPT ![n][m] = [c \in sfsb_channels |-> [u \in Units |->
          IF c \in new /\ u = Left(s) THEN @[c][u] + 1 ELSE @[c][u]]]]
  <2>1. Unpack(n, m, s)
    BY <1>2, <1>5
  <2> QED BY <1>7, <2>1 DEF Unpack, Allocated
<1>9. private' = private
  <2>1. private' = [private EXCEPT ![n] = [c \in sfsb_channels |->
                      IF c \in s.chs \cap Entries(n) THEN Left(s) ELSE @[c]]]
    BY <1>2, <1>5 DEF Unpack
  <2>2. private \in [Nodes -> [sfsb_channels -> Units \cup {Absent}]]
    BY <1>1 DEF Typed
  <2>3. [c \in sfsb_channels |-> IF c \in s.chs \cap Entries(n) THEN Left(s) ELSE private[n][c]] = private[n]
    BY <1>7, <2>2
  <2> QED BY <2>1, <2>2, <2>3
<1>10. /\ heard' \in [Nodes -> [Nodes -> [sfsb_channels -> [Units -> Nat]]]]
       /\ \A k, l \in Nodes : k # n \/ l # m => heard'[k][l] = heard[k][l]
       /\ \A c \in sfsb_channels, u \in Units :
            heard'[n][m][c][u] = heard[n][m][c][u] \/ (u = Left(s) /\ c \in s.chs)
  <2> DEFINE Lists == [sfsb_channels -> [Units -> Nat]]
             l == [c \in sfsb_channels |-> [u \in Units |->
                     IF c \in new /\ u = Left(s) THEN heard[n][m][c][u] + 1 ELSE heard[n][m][c][u]]]
  <2>1. heard \in [Nodes -> [Nodes -> Lists]] /\ heard[n][m] \in Lists
    BY <1>1 DEF Typed
  <2>2. l \in Lists
    BY <2>1
  <2>3. heard' = [heard EXCEPT ![n][m] = l]
    BY <1>8
  <2>4. \A c \in sfsb_channels, u \in Units : l[c][u] = heard[n][m][c][u] \/ (u = Left(s) /\ c \in s.chs)
    BY <1>6, <2>1
  <2> HIDE DEF l, Lists
  <2>5. /\ heard' \in [Nodes -> [Nodes -> Lists]] /\ heard'[n][m] = l
        /\ \A k, j \in Nodes : k # n \/ j # m => heard'[k][j] = heard[k][j]
    BY <2>1, <2>2, <2>3, Replaced
  <2> QED BY <2>4, <2>5 DEF Lists
<1>11. /\ inbox' \in [Nodes -> [Nodes -> Seq(Received)]] /\ inbox'[n][m] = Tail(inbox[n][m])
       /\ \A k, l \in Nodes : k # n \/ l # m => inbox'[k][l] = inbox[k][l]
  <2>1. inbox \in [Nodes -> [Nodes -> Seq(Received)]]
    BY <1>1 DEF Typed
  <2>2. inbox' = [inbox EXCEPT ![n][m] = Tail(inbox[n][m])] /\ Tail(inbox[n][m]) \in Seq(Received)
    BY <1>2, <1>4, <2>1, HeadTaken
  <2> QED BY <2>1, <2>2, Replaced
<1>12. ASSUME NEW k \in Nodes, NEW l \in Nodes PROVE AmongBoth(inbox'[k][l], inbox[k][l], queue[l][k])
  <2>1. CASE k = n /\ l = m
    <3>1. \A i \in DOMAIN Tail(inbox[n][m]) :
            i + 1 \in DOMAIN inbox[n][m] /\ Tail(inbox[n][m])[i] = inbox[n][m][i + 1]
      BY <1>2, <1>4, HeadTaken
    <3> QED BY <1>2, <1>11, <2>1, <3>1 DEF AmongBoth
  <2>2. CASE k # n \/ l # m
    BY <1>11, <2>2 DEF AmongBoth
  <2> QED BY <2>1, <2>2
<1>13. Typed' /\ FromBlacklisters' /\ \A k \in posted' : New(k)'
  <2>1. Typed'
    BY <1>1, <1>2, <1>9, <1>10, <1>11 DEF Typed
  <2>2. \A k, l \in Nodes : inbox'[k][l] # <<>> => l \in Blacklisters /\ k \in Nbrs[l]
    BY <1>1, <1>12 DEF FromBlacklisters, AmongBoth
  <2>3. FromBlacklisters'
    BY <1>1, <1>2, <1>9, <2>2 DEF FromBlacklisters
  <2> QED BY <1>1, <1>2, <1>9, <2>1, <2>3 DEF New
<1>14. SignalsBacked'
  <2>1. \A k, l \in Nodes : \A i \in DOMAIN queue[k][l] :
           Backed(k, queue[k][l][i].chs, Lifetime - queue[k][l][i].age)
    BY <1>1 DEF SignalsBacked
  <2>2. ASSUME NEW k \in Nodes, NEW l \in Nodes, NEW i \in DOMAIN inbox'[k][l]
        PROVE  Backed(l, inbox[k][l][i].chs, Lifetime - inbox[k][l][i].age)'
    <3>1. CASE \E j \in DOMAIN inbox[k][l] : /\ inbox'[k][l][i].chs = inbox[k][l][j].chs
                                             /\ inbox'[k][l][i].age = inbox[k][l][j].age
      <4>1. PICK j \in DOMAIN inbox[k][l] : /\ inbox'[k][l][i].chs = inbox[k][l][j].chs
                                            /\ inbox'[k][l][i].age = inbox[k][l][j].age
        BY <3>1
      <4>2. Backed(l, inbox[k][l][j].chs, Lifetime - inbox[k][l][j].age)
        BY <1>1 DEF SignalsBacked
      <4> QED BY <1>9, <4>1, <4>2 DEF Backed
    <3>2. CASE \E j \in DOMAIN queue[l][k] : /\ inbox'[k][l][i].chs = queue[l][k][j].chs
                                             /\ inbox'[k][l][i].age = queue[l][k][j].age
      <4>1. PICK j \in DOMAIN queue[l][k] : /\ inbox'[k][l][i].chs = queue[l][k][j].chs
                                            /\ inbox'[k][l][i].age = queue[l][k][j].age
        BY <3>2
      <4> QED BY <1>9, <2>1, <4>1 DEF Backed
    <3> QED BY <1>12, <3>1, <3>2 DEF AmongBoth
  <2> QED BY <1>2, <1>9, <2>1, <2>2 DEF SignalsBacked, Backed
<1>15. NeverOutlives'
  <2> SUFFICES ASSUME NEW p \in Pairs, NEW c \in sfsb_channels, NEW u \in Units, u > 0, heard'[p[1]][p[2]][c][u] > 0
               PROVE  private[p[2]][c] # Absent /\ u <= private[p[2]][c]
    BY <1>9 DEF NeverOutlives
  <2>1. p[1] \in Nodes /\ p[2] \in Nodes
    BY Constants
  <2>2. CASE heard'[p[1]][p[2]][c][u] = heard[p[1]][p[2]][c][u]
    BY <1>1, <2>2 DEF NeverOutlives
  <2>3. CASE heard'[p[1]][p[2]][c][u] # heard[p[1]][p[2]][c][u]
    <3>1. p[1] = n /\ p[2] = m
      BY <1>10, <2>1, <2>3, Zenon
    <3>2. u = Left(s) /\ c \in s.chs
      BY <1>10, <2>3, <3>1, Zenon
    <3> QED BY <1>6, <3>1, <3>2
  <2> QED BY <2>2, <2>3
<1> QED BY <1>13, <1>14, <1>15 DEF IInv

(* An entry expires: none is left of what it backed.                       *)
LEMMA ExpireStep ==
  ASSUME IInv, NEW n \in Nodes, NEW c \in sfsb_channels, Expire(n, c)
  PROVE  IInv'
<1>1. Typed /\ FromBlacklisters /\ SignalsBacked /\ NeverOutlives /\ \A k \in posted : New(k)
  BY DEF IInv
<1>2. /\ private[n][c] = 0 /\ private' = [private EXCEPT ![n][c] = Absent]
      /\ UNCHANGED <<heard, queue, inbox, posted>>
  BY DEF Expire, signals
<1>3. /\ private' \in [Nodes -> [sfsb_channels -> Units \cup {Absent}]] /\ private'[n][c] = Absent
      /\ \A k \in Nodes, d \in sfsb_channels : k # n \/ d # c => private'[k][d] = private[k][d]
  BY <1>1, <1>2 DEF Typed
<1>4. Typed'
  BY <1>1, <1>2, <1>3 DEF Typed
<1>5. FromBlacklisters'
  <2>1. \A k \in Nodes : k \notin Blacklisters => \A d \in sfsb_channels : private'[k][d] = Absent
    BY <1>1, <1>3 DEF FromBlacklisters
  <2> QED BY <1>1, <1>2, <2>1 DEF FromBlacklisters
<1>6. \A k \in posted' : New(k)'
  <2> SUFFICES ASSUME NEW k \in posted, NEW d \in sfsb_channels PROVE private'[k][d] \in {Lifetime, Absent}
    BY <1>2 DEF New
  <2>1. k \in Nodes /\ private[k][d] \in {Lifetime, Absent}
    BY <1>1, Constants DEF New, Typed
  <2> QED BY <1>3, <2>1
<1>7. ASSUME NEW k \in Nodes, NEW chs \in SUBSET sfsb_channels, NEW left \in 1 .. Lifetime, Backed(k, chs, left)
      PROVE  Backed(k, chs, left)'
  <2> SUFFICES ASSUME NEW d \in chs PROVE private'[k][d] # Absent /\ left <= private'[k][d]
    BY DEF Backed
  <2>1. private[k][d] # Absent /\ left <= private[k][d]
    BY <1>7 DEF Backed
  <2>2. k # n \/ d # c
    BY <1>2, <2>1
  <2> QED BY <1>3, <2>1, <2>2
<1>8. SignalsBacked'
  <2>1. ASSUME NEW k \in Nodes, NEW m \in Nodes, NEW i \in DOMAIN queue[k][m]
        PROVE  Backed(k, queue[k][m][i].chs, Lifetime - queue[k][m][i].age)'
    <3>1. PICK chs \in SUBSET sfsb_channels, left \in 1 .. Lifetime :
            chs = queue[k][m][i].chs /\ left = Lifetime - queue[k][m][i].age /\ Backed(k, chs, left)
      <4>1. queue[k][m][i].chs \in SUBSET sfsb_channels /\ Lifetime - queue[k][m][i].age \in 1 .. Lifetime
        BY <1>1, SignalFacts, Zenon
      <4>2. Backed(k, queue[k][m][i].chs, Lifetime - queue[k][m][i].age)
        BY <1>1, Zenon DEF SignalsBacked
      <4> QED BY <4>1, <4>2, Zenon
    <3>2. Backed(k, chs, left)'
      BY <1>7, <3>1
    <3> QED BY <1>2, <3>1, <3>2 DEF Backed
  <2>2. ASSUME NEW k \in Nodes, NEW m \in Nodes, NEW i \in DOMAIN inbox[k][m]
        PROVE  Backed(m, inbox[k][m][i].chs, Lifetime - inbox[k][m][i].age)'
    <3>1. PICK chs \in SUBSET sfsb_channels, left \in 1 .. Lifetime :
            chs = inbox[k][m][i].chs /\ left = Lifetime - inbox[k][m][i].age /\ Backed(m, chs, left)
      <4>1. inbox[k][m][i].chs \in SUBSET sfsb_channels /\ Lifetime - inbox[k][m][i].age \in 1 .. Lifetime
        BY <1>1, SignalFacts, Zenon
      <4>2. Backed(m, inbox[k][m][i].chs, Lifetime - inbox[k][m][i].age)
        BY <1>1, Zenon DEF SignalsBacked
      <4> QED BY <4>1, <4>2, Zenon
    <3>2. Backed(m, chs, left)'
      BY <1>7, <3>1
    <3> QED BY <1>2, <3>1, <3>2 DEF Backed
  <2> QED BY <1>2, <2>1, <2>2 DEF SignalsBacked
<1>9. NeverOutlives'
  <2> SUFFICES ASSUME NEW p \in Pairs, NEW d \in sfsb_channels, NEW u \in Units, u > 0, heard[p[1]][p[2]][d][u] > 0
               PROVE  private'[p[2]][d] # Absent /\ u <= private'[p[2]][d]
    BY <1>2 DEF NeverOutlives
  <2>1. private[p[2]][d] # Absent /\ u <= private[p[2]][d] /\ p[2] \in Nodes
    BY <1>1, Constants DEF NeverOutlives
  <2>2. p[2] # n \/ d # c
    BY <1>2, <2>1, Constants
  <2> QED BY <1>3, <2>1, <2>2
<1> QED BY <1>4, <1>5, <1>6, <1>8, <1>9 DEF IInv

(* A received entry expires.                                               *)
LEMMA ExpireHeardStep ==
  ASSUME IInv, NEW n \in Nodes, NEW m \in Nodes, NEW c \in sfsb_channels, ExpireHeard(n, m, c)
  PROVE  IInv'
<1>1. Typed /\ FromBlacklisters /\ SignalsBacked /\ NeverOutlives /\ \A k \in posted : New(k)
  BY DEF IInv
<1>2. /\ heard[n][m][c][0] > 0 /\ heard' = [heard EXCEPT ![n][m][c][0] = @ - 1]
      /\ UNCHANGED <<private, queue, inbox, posted>>
  BY DEF ExpireHeard, signals
<1>3. /\ heard' \in [Nodes -> [Nodes -> [sfsb_channels -> [Units -> Nat]]]]
      /\ \A k, l \in Nodes, d \in sfsb_channels, u \in Units : u # 0 => heard'[k][l][d][u] = heard[k][l][d][u]
  <2> DEFINE Lists == [sfsb_channels -> [Units -> Nat]]
             l == [heard[n][m] EXCEPT ![c][0] = @ - 1]
  <2>1. heard \in [Nodes -> [Nodes -> Lists]] /\ heard[n][m] \in Lists /\ heard[n][m][c] \in [Units -> Nat] /\ 0 \in Units
    <3>1. heard \in [Nodes -> [Nodes -> Lists]]
      BY <1>1 DEF Typed
    <3>2. 0 \in Units
      BY Constants
    <3> QED BY <3>1, <3>2
  <2>2. heard[n][m][c][0] - 1 \in Nat
    BY <1>2, <2>1
  <2>3. l \in Lists
    <3>1. [heard[n][m][c] EXCEPT ![0] = @ - 1] \in [Units -> Nat]
      BY <2>1, <2>2
    <3> QED BY <2>1, <3>1
  <2>4. \A d \in sfsb_channels, u \in Units : u # 0 => l[d][u] = heard[n][m][d][u]
    BY <2>1
  <2>5. heard' = [heard EXCEPT ![n][m] = l]
    BY <1>2, <2>1
  <2> HIDE DEF l, Lists
  <2>6. /\ heard' \in [Nodes -> [Nodes -> Lists]] /\ heard'[n][m] = l
        /\ \A k, j \in Nodes : k # n \/ j # m => heard'[k][j] = heard[k][j]
    BY <2>1, <2>3, <2>5, Replaced
  <2>7. ASSUME NEW k \in Nodes, NEW j \in Nodes, NEW d \in sfsb_channels, NEW u \in Units, u # 0
        PROVE  heard'[k][j][d][u] = heard[k][j][d][u]
    <3>1. CASE k = n /\ j = m
      BY <2>4, <2>6, <2>7, <3>1
    <3>2. CASE k # n \/ j # m
      BY <2>6, <3>2
    <3> QED BY <3>1, <3>2
  <2> QED BY <2>6, <2>7 DEF Lists
<1>4. Typed'
  BY <1>1, <1>2, <1>3 DEF Typed
<1>5. FromBlacklisters' /\ SignalsBacked' /\ \A k \in posted' : New(k)'
  BY <1>1, <1>2 DEF FromBlacklisters, SignalsBacked, Backed, New
<1>6. NeverOutlives'
  <2> SUFFICES ASSUME NEW p \in Pairs, NEW d \in sfsb_channels, NEW u \in Units, u > 0, heard'[p[1]][p[2]][d][u] > 0
               PROVE  private[p[2]][d] # Absent /\ u <= private[p[2]][d]
    BY <1>2 DEF NeverOutlives
  <2>1. heard[p[1]][p[2]][d][u] > 0
    <3>1. p[1] \in Nodes /\ p[2] \in Nodes /\ u # 0
      BY Constants
    <3>2. heard'[p[1]][p[2]][d][u] = heard[p[1]][p[2]][d][u]
      BY <1>3, <3>1, Zenon
    <3> QED BY <3>2
  <2> QED BY <1>1, <2>1 DEF NeverOutlives
<1> QED BY <1>4, <1>5, <1>6 DEF IInv

(* Time passes for entries and for SIGNALs alike.                          *)
LEMMA LaterStep ==
  ASSUME IInv, Later
  PROVE  IInv'
<1>1. Typed /\ FromBlacklisters /\ SignalsBacked /\ NeverOutlives
  BY DEF IInv
<1>2. /\ posted = {}
      /\ \A n \in Nodes, c \in sfsb_channels : private[n][c] # 0
      /\ \A n, m \in Nodes : inbox[n][m] = <<>> /\ \A i \in DOMAIN queue[n][m] : queue[n][m][i].age < MaxAge
      /\ private' = [n \in Nodes |-> [c \in sfsb_channels |->
           IF private[n][c] = Absent THEN Absent ELSE private[n][c] - 1]]
      /\ heard' = [n \in Nodes |-> [m \in Nodes |-> [c \in sfsb_channels |-> [u \in Units |->
           IF u = Lifetime THEN 0 ELSE heard[n][m][c][u + 1]]]]]
      /\ queue' = [n \in Nodes |-> [m \in Nodes |->
           [i \in DOMAIN queue[n][m] |-> [queue[n][m][i] EXCEPT !.age = @ + 1]]]]
      /\ UNCHANGED <<inbox, posted>>
  BY DEF Later
<1>3. ASSUME NEW n \in Nodes, NEW c \in sfsb_channels
      PROVE  /\ private'[n][c] = IF private[n][c] = Absent THEN Absent ELSE private[n][c] - 1
             /\ private'[n][c] \in Units \cup {Absent} /\ private[n][c] \in Nat
             /\ private[n][c] # Absent => private'[n][c] = private[n][c] - 1 /\ private'[n][c] # Absent
  <2>1. private[n][c] \in Units \cup {Absent} /\ private[n][c] # 0
    BY <1>1, <1>2 DEF Typed
  <2>2. private'[n][c] = IF private[n][c] = Absent THEN Absent ELSE private[n][c] - 1
    BY <1>2
  <2> QED BY <2>1, <2>2, Constants
<1>4. ASSUME NEW n \in Nodes, NEW m \in Nodes, NEW c \in sfsb_channels, NEW u \in Units
      PROVE  /\ heard'[n][m][c][u] = IF u = Lifetime THEN 0 ELSE heard[n][m][c][u + 1]
             /\ heard'[n][m][c][u] \in Nat /\ (u # Lifetime => u + 1 \in Units)
  <2>1. heard[n][m][c] \in [Units -> Nat]
    BY <1>1 DEF Typed
  <2>2. heard'[n][m][c][u] = IF u = Lifetime THEN 0 ELSE heard[n][m][c][u + 1]
    BY <1>2
  <2>3. u # Lifetime => u + 1 \in Units
    BY Constants
  <2> QED BY <2>1, <2>2, <2>3
<1>5. ASSUME NEW n \in Nodes, NEW m \in Nodes
      PROVE  /\ queue'[n][m] \in Seq(Signal) /\ DOMAIN queue'[n][m] = DOMAIN queue[n][m]
             /\ \A i \in DOMAIN queue[n][m] : /\ queue'[n][m][i].chs = queue[n][m][i].chs
                                              /\ queue'[n][m][i].age = queue[n][m][i].age + 1
  <2>1. /\ queue[n][m] \in Seq(Signal) /\ Len(queue[n][m]) \in Nat /\ DOMAIN queue[n][m] = 1 .. Len(queue[n][m])
        /\ \A i \in DOMAIN queue[n][m] : queue[n][m][i] \in Signal
    BY <1>1, SignalFacts, Places
  <2>2. queue'[n][m] = [i \in DOMAIN queue[n][m] |-> [queue[n][m][i] EXCEPT !.age = @ + 1]]
    BY <1>2
  <2>3. ASSUME NEW i \in DOMAIN queue[n][m]
        PROVE  /\ queue'[n][m][i] \in Signal /\ queue'[n][m][i].chs = queue[n][m][i].chs
               /\ queue'[n][m][i].age = queue[n][m][i].age + 1
    <3>1. PICK s \in Signal : s = queue[n][m][i] /\ s.age < MaxAge /\ queue'[n][m][i] = [s EXCEPT !.age = @ + 1]
      BY <1>2, <2>1, <2>2
    <3>2. s.age + 1 \in 0 .. MaxAge
      BY <3>1, Constants DEF Signal
    <3> QED BY <3>1, <3>2 DEF Signal
  <2>4. queue'[n][m] \in [1 .. Len(queue[n][m]) -> Signal]
    BY <2>1, <2>2, <2>3
  <2>5. queue'[n][m] \in Seq(Signal)
    <3> HIDE DEF Signal
    <3> QED BY <2>1, <2>4, SeqDef
  <2> QED BY <2>2, <2>3, <2>5
<1>6. Typed'
  <2>1. private' \in [Nodes -> [sfsb_channels -> Units \cup {Absent}]]
    BY <1>2, <1>3
  <2>2. heard' \in [Nodes -> [Nodes -> [sfsb_channels -> [Units -> Nat]]]]
    BY <1>2, <1>4
  <2>3. queue' \in [Nodes -> [Nodes -> Seq(Signal)]]
    <3>1. queue' = [n \in Nodes |-> [m \in Nodes |-> queue'[n][m]]]
      BY <1>2
    <3> QED BY <1>5, <3>1
  <2> QED BY <1>1, <1>2, <2>1, <2>2, <2>3 DEF Typed
<1>7. FromBlacklisters'
  <2>1. \A n \in Nodes : n \notin Blacklisters => \A c \in sfsb_channels : private'[n][c] = Absent
    BY <1>1, <1>3 DEF FromBlacklisters
  <2>2. ASSUME NEW n \in Nodes, NEW m \in Nodes, queue'[n][m] # <<>> PROVE queue[n][m] # <<>>
    <3>1. DOMAIN queue'[n][m] # {}
      BY <1>5, <2>2, EmptySeq
    <3> QED BY <1>5, <3>1
  <2> QED BY <1>1, <1>2, <2>1, <2>2 DEF FromBlacklisters
<1>8. SignalsBacked'
  <2>1. ASSUME NEW n \in Nodes, NEW m \in Nodes, NEW i \in DOMAIN queue'[n][m]
        PROVE  Backed(n, queue[n][m][i].chs, Lifetime - queue[n][m][i].age)'
    <3>1. PICK chs \in SUBSET sfsb_channels, age \in Nat :
            /\ chs = queue[n][m][i].chs /\ age = queue[n][m][i].age /\ Backed(n, chs, Lifetime - age)
            /\ chs = queue'[n][m][i].chs /\ age + 1 = queue'[n][m][i].age
      <4>1. i \in DOMAIN queue[n][m]
        BY <1>5
      <4>2. queue[n][m][i].chs \in SUBSET sfsb_channels /\ queue[n][m][i].age \in Nat
        BY <1>1, <4>1, SignalFacts
      <4> QED BY <1>1, <1>5, <4>1, <4>2 DEF SignalsBacked
    <3>2. \A c \in chs : private'[n][c] # Absent /\ Lifetime - (age + 1) <= private'[n][c]
      <4> SUFFICES ASSUME NEW c \in chs PROVE private'[n][c] # Absent /\ Lifetime - (age + 1) <= private'[n][c]
        OBVIOUS
      <4>1. private[n][c] # Absent /\ Lifetime - age <= private[n][c]
        BY <3>1 DEF Backed
      <4> QED BY <1>3, <4>1, Constants
    <3> QED BY <3>1, <3>2 DEF Backed
  <2>2. \A n, m \in Nodes : DOMAIN inbox'[n][m] = {}
    BY <1>2
  <2> QED BY <2>1, <2>2 DEF SignalsBacked
<1>9. NeverOutlives'
  <2>1. ASSUME NEW n \in Nodes, NEW m \in Nodes, NEW c \in sfsb_channels, NEW u \in Units,
               <<n, m>> \in Pairs, u > 0, heard'[n][m][c][u] > 0
        PROVE  private'[m][c] # Absent /\ u <= private'[m][c]
    <3>1. u # Lifetime /\ heard[n][m][c][u + 1] > 0
      BY <1>4, <2>1
    <3>2. u \in Nat /\ u + 1 \in Units /\ u + 1 > 0
      BY <1>4, <3>1, Constants
    <3>3. private[m][c] # Absent /\ u + 1 <= private[m][c]
      BY <1>1, <2>1, <3>1, <3>2 DEF NeverOutlives
    <3> QED BY <1>3, <3>2, <3>3, Constants
  <2>2. \A p \in Pairs : p[1] \in Nodes /\ p[2] \in Nodes /\ <<p[1], p[2]>> \in Pairs
    BY DEF Pairs
  <2> QED BY <2>1, <2>2 DEF NeverOutlives
<1> QED BY <1>2, <1>6, <1>7, <1>8, <1>9 DEF IInv
-----------------------------------------------------------------------------
LEMMA NextIInv == OneSided /\ IInv /\ [Next]_vars => IInv'
<1> SUFFICES ASSUME OneSided, IInv, [Next]_vars PROVE IInv'
  OBVIOUS
<1>1. CASE \E n \in Nodes : \E tell \in SUBSET Nbrs[n] : Round(n, tell) \/ Distribute(n, tell)
  BY <1>1, RoundStep, DistributeStep
<1>2. ASSUME NEW p \in Pairs,
             \/ Arrive(p[1], p[2]) \/ Acked(p[1], p[2]) \/ NotAcked(p[1], p[2])
             \/ SignalReqInput(p[1], p[2]) \/ Refuse(p[1], p[2])
             \/ TransTimeout(p[1], p[2]) \/ Negotiated(p[1], p[2])
             \/ \E c \in sfsb_channels : ExpireHeard(p[1], p[2], c)
      PROVE  IInv'
  <2>1. p[1] \in Nodes /\ p[2] \in Nodes
    BY Constants
  <2>2. CASE Arrive(p[1], p[2])
    BY <2>1, <2>2, ArriveStep
  <2>3. CASE Acked(p[1], p[2])
    BY <2>1, <2>3, DequeueStep DEF Acked
  <2>4. CASE NotAcked(p[1], p[2])
    BY <2>1, <2>4, DequeueStep DEF NotAcked, Under, lists
  <2>5. CASE SignalReqInput(p[1], p[2])
    BY <2>1, <2>5, SignalReqInputStep
  <2>6. CASE Refuse(p[1], p[2])
    BY <2>1, <2>6, RefuseStep
  <2>7. CASE TransTimeout(p[1], p[2]) \/ Negotiated(p[1], p[2])
    BY <2>7, OtherStep DEF TransTimeout, Negotiated, lists, signals
  <2>8. CASE \E c \in sfsb_channels : ExpireHeard(p[1], p[2], c)
    BY <2>1, <2>8, ExpireHeardStep
  <2> QED BY <1>2, <2>2, <2>3, <2>4, <2>5, <2>6, <2>7, <2>8
<1>3. CASE \E n \in Nodes, c \in sfsb_channels : Expire(n, c)
  BY <1>3, ExpireStep
<1>4. CASE Stop \/ Tick \/ UNCHANGED vars
  BY <1>4, OtherStep DEF Stop, Tick, vars, lists, signals
<1>5. CASE Later
  BY <1>5, LaterStep
<1> QED BY <1>1, <1>2, <1>3, <1>4, <1>5 DEF Next

(* As long as no neighbour of a node that blacklists does so as well: what *)
(* a node avoids on a neighbour's word, the neighbour has in its own list  *)
(* for as long, however SIGNALs are delayed, lost, refused or repeated.    *)
THEOREM NoneOutlives ==
  ASSUME OneSided
  PROVE  Spec => []NeverOutlives
<1>1. IInv => NeverOutlives
  BY DEF IInv
<1>2. IInv /\ [Next]_vars => IInv'
  BY NextIInv
<1> QED BY <1>1, <1>2, InitIInv, PTL DEF Spec
-----------------------------------------------------------------------------
(* Sums of functions over finite sets                                      *)

(* What SumFunctionOnSet computes, from the empty subset of S on.          *)
Chosen(s) == CHOOSE x \in s : TRUE
SumAt(f, g, s) == IF s = {} THEN 0 ELSE f[Chosen(s)] + g[s \ {Chosen(s)}]
Summed(f, g, s) == g[s] = SumAt(f, g, s)
Sums(f, g, S) == g = [s \in SUBSET S |-> SumAt(f, g, s)]

(* A subset without the element chosen.                                    *)
LEMMA OneLess ==
  ASSUME NEW S, IsFiniteSet(S), NEW s \in SUBSET S
  PROVE  /\ IsFiniteSet(s) /\ Cardinality(s) \in Nat
         /\ (s = {}) <=> (Cardinality(s) = 0)
         /\ s # {} => /\ Chosen(s) \in s /\ s \ {Chosen(s)} \in SUBSET S
                      /\ Cardinality(s \ {Chosen(s)}) = Cardinality(s) - 1
<1>1. IsFiniteSet(s) /\ Cardinality(s) \in Nat /\ ((s = {}) <=> (Cardinality(s) = 0))
  BY FS_Subset, FS_CardinalityType, FS_EmptySet
<1>2. ASSUME s # {} PROVE Chosen(s) \in s
  BY <1>2 DEF Chosen
<1>3. ASSUME s # {} PROVE Cardinality(s \ {Chosen(s)}) = Cardinality(s) - 1
  BY <1>1, <1>2, <1>3, FS_RemoveElement
<1> QED BY <1>1, <1>2, <1>3

(* What holds of the empty set, and of a set if of the one with an element *)
(* less, holds of all subsets of a finite set.                             *)
LEMMA OverSubsets ==
  ASSUME NEW S, IsFiniteSet(S), NEW U, {} \in U,
         \A s \in SUBSET S : s # {} /\ s \ {Chosen(s)} \in U => s \in U
  PROVE  SUBSET S \subseteq U
<1> DEFINE T == {k \in Nat : \A s \in SUBSET S : Cardinality(s) <= k => s \in U}
<1>1. 0 \in T
  <2> SUFFICES ASSUME NEW s \in SUBSET S, Cardinality(s) <= 0 PROVE s \in U
    OBVIOUS
  <2>1. Cardinality(s) \in Nat /\ ((s = {}) <=> (Cardinality(s) = 0))
    BY OneLess
  <2> QED BY <2>1
<1>2. ASSUME NEW k \in Nat, k \in T PROVE k + 1 \in T
  <2> SUFFICES ASSUME NEW s \in SUBSET S, Cardinality(s) <= k + 1 PROVE s \in U
    OBVIOUS
  <2>1. CASE s = {}
    BY <2>1
  <2>2. CASE s # {}
    <3>1. s \ {Chosen(s)} \in SUBSET S /\ Cardinality(s \ {Chosen(s)}) <= k
      BY <2>2, OneLess
    <3>2. s \ {Chosen(s)} \in U
      BY <1>2, <3>1
    <3> QED BY <2>2, <3>2
  <2> QED BY <2>1, <2>2
<1>3. Nat \subseteq T
  <2> HIDE DEF T
  <2> QED BY <1>1, <1>2, Induction
<1> SUFFICES ASSUME NEW s \in SUBSET S PROVE s \in U
  OBVIOUS
<1>4. Cardinality(s) \in T
  BY <1>3, OneLess
<1> QED BY <1>4

(* There is a function as the recursive definition of the sum says.        *)
LEMMA SumsExist ==
  ASSUME NEW S, NEW f, IsFiniteSet(S)
  PROVE  \E g : Sums(f, g, S)
<1> DEFINE Upto(g, k) == \A s \in SUBSET S : Cardinality(s) <= k => Summed(f, g, s)
           T == {k \in Nat : \E g : Upto(g, k)}
<1>1. 0 \in T
  <2> DEFINE g == [s \in SUBSET S |-> 0]
  <2>1. ASSUME NEW s \in SUBSET S, Cardinality(s) <= 0 PROVE Summed(f, g, s)
    <3>1. Cardinality(s) \in Nat /\ ((s = {}) <=> (Cardinality(s) = 0))
      BY OneLess
    <3>2. s = {}
      BY <2>1, <3>1
    <3> QED BY <3>2 DEF Summed, SumAt
  <2> QED BY <2>1
<1>2. ASSUME NEW k \in Nat, k \in T PROVE k + 1 \in T
  <2>1. PICK g : Upto(g, k)
    BY <1>2
  <2> DEFINE h == [s \in SUBSET S |->
                     IF Cardinality(s) <= k THEN g[s] ELSE f[Chosen(s)] + g[s \ {Chosen(s)}]]
  <2>2. ASSUME NEW s \in SUBSET S, Cardinality(s) <= k + 1 PROVE Summed(f, h, s)
    <3>1. Cardinality(s) \in Nat
      BY OneLess
    <3>2. CASE s = {}
      <4>1. Cardinality(s) = 0
        BY <3>2, OneLess
      <4>2. Summed(f, g, s) /\ h[s] = g[s]
        BY <2>1, <4>1
      <4> HIDE DEF h
      <4> QED BY <3>2, <4>2 DEF Summed, SumAt
    <3>3. CASE s # {}
      <4>1. s \ {Chosen(s)} \in SUBSET S /\ Cardinality(s \ {Chosen(s)}) <= k
        BY <2>2, <3>3, OneLess
      <4>2. h[s \ {Chosen(s)}] = g[s \ {Chosen(s)}]
        BY <4>1
      <4>3. h[s] = f[Chosen(s)] + g[s \ {Chosen(s)}]
        BY <2>1, <3>3 DEF Summed, SumAt
      <4> HIDE DEF h
      <4> QED BY <3>3, <4>2, <4>3 DEF Summed, SumAt
    <3> QED BY <3>2, <3>3
  <2>3. Upto(h, k + 1)
    BY <2>2
  <2> HIDE DEF h, Upto
  <2> QED BY <2>3
<1>3. Cardinality(S) \in T
  <2>1. Nat \subseteq T
    <3> HIDE DEF T
    <3> QED BY <1>1, <1>2, Induction
  <2> QED BY <2>1, FS_CardinalityType
<1>4. PICK g : Upto(g, Cardinality(S))
  BY <1>3
<1>5. PICK h : h = [s \in SUBSET S |-> g[s]]
  OBVIOUS
<1>6. ASSUME NEW s \in SUBSET S PROVE g[s] = SumAt(f, h, s)
  <2>1. Summed(f, g, s)
    BY <1>4, FS_Subset
  <2>2. CASE s = {}
    BY <2>1, <2>2 DEF Summed, SumAt
  <2>3. CASE s # {}
    <3>1. h[s \ {Chosen(s)}] = g[s \ {Chosen(s)}]
      BY <1>5
    <3> QED BY <2>1, <2>3, <3>1 DEF Summed, SumAt
  <2> QED BY <2>2, <2>3
<1>7. h = [s \in SUBSET S |-> SumAt(f, h, s)]
  BY <1>5, <1>6
<1> QED BY <1>7 DEF Sums

(* The sum by its recursive definition.                                    *)
LEMMA SumIs ==
  ASSUME NEW S, NEW f, IsFiniteSet(S)
  PROVE  \E g : SumFunctionOnSet(f, S) = g[S] /\ \A s \in SUBSET S : Summed(f, g, s)
<1> DEFINE g == CHOOSE g : g = [s \in SUBSET S |-> SumAt(f, g, s)]
<1>1. g = [s \in SUBSET S |-> SumAt(f, g, s)]
  <2>1. \E h : Sums(f, h, S)
    BY SumsExist
  <2> QED BY <2>1, Zenon DEF Sums
<1>2. SumFunctionOnSet(f, S) = g[S]
  BY Zenon DEF SumFunctionOnSet, FoldFunctionOnSet, MapThenFoldSet, Chosen, SumAt
<1>3. PICK h : h = g
  OBVIOUS
<1>4. h = [s \in SUBSET S |-> SumAt(f, h, s)]
      /\ SumFunctionOnSet(f, S) = h[S]
  BY <1>1, <1>2, <1>3, Zenon
<1>5. \A s \in SUBSET S : Summed(f, h, s)
  BY <1>4, Zenon DEF Summed
<1> QED BY <1>4, <1>5, Zenon

(* The sum of numbers is one.                                              *)
LEMMA SumType ==
  ASSUME NEW S, IsFiniteSet(S), NEW f \in [S -> Nat]
  PROVE  SumFunctionOnSet(f, S) \in Nat
<1>1. PICK g : SumFunctionOnSet(f, S) = g[S] /\ \A s \in SUBSET S : Summed(f, g, s)
  BY SumIs
<1> DEFINE U == {s \in SUBSET S : g[s] \in Nat}
<1>2. {} \in U
  BY <1>1 DEF Summed, SumAt
<1>3. ASSUME NEW s \in SUBSET S, s # {}, s \ {Chosen(s)} \in U PROVE s \in U
  <2>1. Chosen(s) \in S
    BY <1>3, OneLess
  <2>2. g[s] = f[Chosen(s)] + g[s \ {Chosen(s)}]
    BY <1>1, <1>3 DEF Summed, SumAt
  <2> QED BY <1>3, <2>1, <2>2
<1>4. SUBSET S \subseteq U
  <2> HIDE DEF U
  <2> QED BY <1>2, <1>3, OverSubsets
<1> QED BY <1>1, <1>4

(* Larger numbers have a larger sum.                                       *)
LEMMA SumMonotone ==
  ASSUME NEW S, IsFiniteSet(S), NEW f \in [S -> Nat], NEW h \in [S -> Nat], \A x \in S : f[x] <= h[x]
  PROVE  SumFunctionOnSet(f, S) <= SumFunctionOnSet(h, S)
<1>1. PICK g : SumFunctionOnSet(f, S) = g[S] /\ \A s \in SUBSET S : Summed(f, g, s)
  BY SumIs
<1>2. PICK k : SumFunctionOnSet(h, S) = k[S] /\ \A s \in SUBSET S : Summed(h, k, s)
  BY SumIs
<1> DEFINE U == {s \in SUBSET S : g[s] \in Nat /\ k[s] \in Nat /\ g[s] <= k[s]}
<1>3. {} \in U
  <2>1. g[{}] = 0 /\ k[{}] = 0
    BY <1>1, <1>2 DEF Summed, SumAt
  <2> QED BY <2>1
<1>4. ASSUME NEW s \in SUBSET S, s # {}, s \ {Chosen(s)} \in U PROVE s \in U
  <2>1. Chosen(s) \in S
    BY <1>4, OneLess
  <2>2. g[s] = f[Chosen(s)] + g[s \ {Chosen(s)}] /\ k[s] = h[Chosen(s)] + k[s \ {Chosen(s)}]
    BY <1>1, <1>2, <1>4 DEF Summed, SumAt
  <2> QED BY <1>4, <2>1, <2>2
<1>5. SUBSET S \subseteq U
  <2> HIDE DEF U
  <2> QED BY <1>3, <1>4, OverSubsets
<1> QED BY <1>1, <1>2, <1>5

(* One more for each of T makes as many more as T has elements.            *)
LEMMA SumCounted ==
  ASSUME NEW S, IsFiniteSet(S), NEW f \in [S -> Nat], NEW h \in [S -> Nat], NEW T \in SUBSET S,
         \A x \in S : h[x] = IF x \in T THEN f[x] + 1 ELSE f[x]
  PROVE  SumFunctionOnSet(h, S) = SumFunctionOnSet(f, S) + Cardinality(T)
<1>1. PICK g : SumFunctionOnSet(f, S) = g[S] /\ \A s \in SUBSET S : Summed(f, g, s)
  BY SumIs
<1>2. PICK k : SumFunctionOnSet(h, S) = k[S] /\ \A s \in SUBSET S : Summed(h, k, s)
  BY SumIs
<1> DEFINE U == {s \in SUBSET S : g[s] \in Nat /\ k[s] = g[s] + Cardinality(T \cap s)}
<1>3. {} \in U
  <2>1. T \cap {} = {} /\ Cardinality({}) = 0
    BY FS_EmptySet
  <2>2. g[{}] = 0 /\ k[{}] = 0
    BY <1>1, <1>2 DEF Summed, SumAt
  <2> QED BY <2>1, <2>2
<1>4. ASSUME NEW s \in SUBSET S, s # {}, s \ {Chosen(s)} \in U PROVE s \in U
  <2>1. PICK x \in S : x = Chosen(s) /\ x \in s
    BY <1>4, OneLess
  <2>2. g[s] = f[x] + g[s \ {x}] /\ k[s] = h[x] + k[s \ {x}]
    BY <1>1, <1>2, <1>4, <2>1 DEF Summed, SumAt
  <2>3. g[s \ {x}] \in Nat /\ k[s \ {x}] = g[s \ {x}] + Cardinality(T \cap (s \ {x}))
    BY <1>4, <2>1
  <2>4. IsFiniteSet(T \cap s) /\ Cardinality(T \cap s) \in Nat
    BY FS_Subset, FS_CardinalityType
  <2>5. CASE x \in T
    <3>1. T \cap (s \ {x}) = (T \cap s) \ {x} /\ x \in T \cap s
      BY <2>1, <2>5
    <3>2. Cardinality(T \cap (s \ {x})) = Cardinality(T \cap s) - 1
      <4>1. PICK R : R = T \cap s
        OBVIOUS
      <4>2. Cardinality(R \ {x}) = Cardinality(R) - 1
        BY <2>4, <3>1, <4>1, FS_RemoveElement
      <4> QED BY <3>1, <4>1, <4>2
    <3>3. h[x] = f[x] + 1
      BY <2>5
    <3>4. k[s] = g[s] + Cardinality(T \cap s) /\ g[s] \in Nat
      BY <2>2, <2>3, <2>4, <3>2, <3>3
    <3> QED BY <3>4
  <2>6. CASE x \notin T
    <3>1. T \cap (s \ {x}) = T \cap s
      BY <2>6
    <3>2. h[x] = f[x]
      BY <2>6
    <3>3. Cardinality(T \cap (s \ {x})) = Cardinality(T \cap s)
      BY <3>1
    <3>4. k[s] = g[s] + Cardinality(T \cap s) /\ g[s] \in Nat
      BY <2>2, <2>3, <2>4, <3>2, <3>3
    <3> QED BY <3>4
  <2> QED BY <2>5, <2>6
<1>5. SUBSET S \subseteq U
  <2> HIDE DEF U
  <2> QED BY <1>3, <1>4, OverSubsets
<1>6. T \cap S = T
  OBVIOUS
<1> QED BY <1>1, <1>2, <1>5, <1>6

(* One number changed changes the sum by that much.                        *)
LEMMA SumChanged ==
  ASSUME NEW S, IsFiniteSet(S), NEW f \in [S -> Nat], NEW h \in [S -> Nat], NEW x \in S,
         \A y \in S : y # x => h[y] = f[y]
  PROVE  SumFunctionOnSet(h, S) = SumFunctionOnSet(f, S) + (h[x] - f[x])
<1>1. PICK g : SumFunctionOnSet(f, S) = g[S] /\ \A s \in SUBSET S : Summed(f, g, s)
  BY SumIs
<1>2. PICK k : SumFunctionOnSet(h, S) = k[S] /\ \A s \in SUBSET S : Summed(h, k, s)
  BY SumIs
<1> DEFINE U == {s \in SUBSET S : g[s] \in Nat /\ k[s] = g[s] + (IF x \in s THEN h[x] - f[x] ELSE 0)}
<1>3. {} \in U
  <2>1. g[{}] = 0 /\ k[{}] = 0
    BY <1>1, <1>2 DEF Summed, SumAt
  <2> QED BY <2>1
<1>4. ASSUME NEW s \in SUBSET S, s # {}, s \ {Chosen(s)} \in U PROVE s \in U
  <2>1. PICK y \in S : y = Chosen(s) /\ y \in s
    BY <1>4, OneLess
  <2>2. g[s] = f[y] + g[s \ {y}] /\ k[s] = h[y] + k[s \ {y}]
    BY <1>1, <1>2, <1>4, <2>1 DEF Summed, SumAt
  <2>3. g[s \ {y}] \in Nat /\ k[s \ {y}] = g[s \ {y}] + (IF x \in s \ {y} THEN h[x] - f[x] ELSE 0)
    BY <1>4, <2>1
  <2>4. CASE x = y
    BY <2>1, <2>2, <2>3, <2>4
  <2>5. CASE x # y
    BY <2>1, <2>2, <2>3, <2>5
  <2> QED BY <2>4, <2>5
<1>5. SUBSET S \subseteq U
  <2> HIDE DEF U
  <2> QED BY <1>3, <1>4, OverSubsets
<1> QED BY <1>1, <1>2, <1>5

(* The same, of one place that changes.                                    *)
ChangesAt(f, h, S, x) ==
  IsFiniteSet(S) /\ {f, h} \subseteq [S -> Nat] /\ x \in S /\ \A y \in S : y # x => h[y] = f[y]

(* A function that changes at one place: by how much its sum does.         *)
LEMMA SumChangesBy ==
  ASSUME NEW S, NEW f, NEW h, NEW x, ChangesAt(f, h, S, x)
  PROVE  SumFunctionOnSet(h, S) = SumFunctionOnSet(f, S) + (h[x] - f[x])
  BY SumChanged DEF ChangesAt

(* The sum of nothing, and that no number exceeds the sum it is in.        *)
LEMMA SumZero ==
  ASSUME NEW S, IsFiniteSet(S), NEW f \in [S -> Nat], \A x \in S : f[x] = 0
  PROVE  SumFunctionOnSet(f, S) = 0
<1>1. PICK g : SumFunctionOnSet(f, S) = g[S] /\ \A s \in SUBSET S : Summed(f, g, s)
  BY SumIs
<1> DEFINE U == {s \in SUBSET S : g[s] = 0}
<1>2. {} \in U
  BY <1>1 DEF Summed, SumAt
<1>3. ASSUME NEW s \in SUBSET S, s # {}, s \ {Chosen(s)} \in U PROVE s \in U
  <2>1. Chosen(s) \in S
    BY <1>3, OneLess
  <2>2. g[s] = f[Chosen(s)] + g[s \ {Chosen(s)}]
    BY <1>1, <1>3 DEF Summed, SumAt
  <2> QED BY <1>3, <2>1, <2>2
<1>4. SUBSET S \subseteq U
  <2> HIDE DEF U
  <2> QED BY <1>2, <1>3, OverSubsets
<1> QED BY <1>1, <1>4

(* A sum is zero only if every number is, and none of them exceeds it.     *)
LEMMA SumBounds ==
  ASSUME NEW S, IsFiniteSet(S), NEW f \in [S -> Nat], NEW x \in S
  PROVE  f[x] <= SumFunctionOnSet(f, S)
<1>1. PICK h \in [S -> Nat] : h = [f EXCEPT ![x] = 0]
  OBVIOUS
<1>2. h[x] = 0 /\ \A y \in S : y # x => h[y] = f[y]
  BY <1>1
<1>3. SumFunctionOnSet(h, S) = SumFunctionOnSet(f, S) + (h[x] - f[x])
  BY <1>2, SumChanged
<1>4. SumFunctionOnSet(h, S) \in Nat /\ SumFunctionOnSet(f, S) \in Nat
  BY SumType
<1> QED BY <1>2, <1>3, <1>4

(* The first k of n + 1 numbers, 0 in place of the others.                 *)
First(f, n, k) == [u \in 0 .. n |-> IF u < k THEN f[u] ELSE 0]
SumOfFirst(f, n, k) == SumFunctionOnSet(First(f, n, k), 0 .. n)

Beside(f, n, k, m) == n \in Nat /\ f \in [0 .. n -> Nat] /\ k \in 0 .. n /\ m \in Nat /\ m = k + 1

(* Of numbers that are an interval apart and below a bound, the first      *)
(* leaves as many intervals less.                                          *)
LEMMA FirstNumbers ==
  ASSUME NEW n \in Nat, NEW f \in [0 .. n -> Nat]
  PROVE  /\ \A k \in Nat : First(f, n, k) \in [0 .. n -> Nat] /\ SumOfFirst(f, n, k) \in Nat
         /\ SumOfFirst(f, n, 0) = 0
         /\ \A k, m : Beside(f, n, k, m) => SumOfFirst(f, n, m) = SumOfFirst(f, n, k) + f[k]
         /\ \A m \in Nat : m = n + 1 => SumOfFirst(f, n, m) = SumFunctionOnSet(f, 0 .. n)
<1>1. IsFiniteSet(0 .. n)
  BY FS_Interval
<1>2. ASSUME NEW k \in Nat PROVE First(f, n, k) \in [0 .. n -> Nat] /\ SumOfFirst(f, n, k) \in Nat
  <2>1. First(f, n, k) \in [0 .. n -> Nat]
    BY DEF First
  <2> QED BY <1>1, <2>1, SumType DEF SumOfFirst
<1>3. SumOfFirst(f, n, 0) = 0
  <2>1. \A u \in 0 .. n : First(f, n, 0)[u] = 0
    BY DEF First
  <2> QED BY <1>1, <1>2, <2>1, SumZero DEF SumOfFirst
<1>4. ASSUME NEW k, NEW m, Beside(f, n, k, m)
      PROVE  SumOfFirst(f, n, m) = SumOfFirst(f, n, k) + f[k]
  <2>1. k \in Nat /\ k \in 0 .. n /\ m \in Nat /\ m = k + 1
    BY <1>4 DEF Beside
  <2>a. PICK S : S = 0 .. n
    OBVIOUS
  <2>2. PICK a \in [0 .. n -> Nat], b \in [0 .. n -> Nat] : a = First(f, n, k) /\ b = First(f, n, m)
    BY <1>2, <2>1
  <2>3. a[k] = 0 /\ b[k] = f[k] /\ \A u \in 0 .. n : u # k => b[u] = a[u]
    BY <2>1, <2>2 DEF First
  <2>4. SumFunctionOnSet(b, 0 .. n) = SumFunctionOnSet(a, 0 .. n) + (b[k] - a[k])
    <3>1. ChangesAt(a, b, S, k)
      BY <1>1, <2>1, <2>a, <2>2, <2>3 DEF ChangesAt
    <3>2. SumFunctionOnSet(b, S) = SumFunctionOnSet(a, S) + (b[k] - a[k])
      BY <3>1, SumChangesBy
    <3> QED BY <2>a, <3>2
  <2>5. SumFunctionOnSet(a, 0 .. n) \in Nat /\ f[k] \in Nat
    BY <1>1, <2>1, SumType
  <2>6. SumFunctionOnSet(b, 0 .. n) = SumFunctionOnSet(a, 0 .. n) + f[k]
    BY <2>3, <2>4, <2>5
  <2> QED BY <2>2, <2>6 DEF SumOfFirst
<1>5. ASSUME NEW m \in Nat, m = n + 1 PROVE SumOfFirst(f, n, m) = SumFunctionOnSet(f, 0 .. n)
  <2>1. PICK a \in [0 .. n -> Nat] : a = First(f, n, m)
    BY <1>2
  <2>2. \A u \in 0 .. n : a[u] = f[u]
    BY <1>5, <2>1 DEF First
  <2>3. a = f
    BY <2>2
  <2> QED BY <2>1, <2>3 DEF SumOfFirst
<1> QED BY <1>2, <1>3, <1>4, <1>5

(* A nonempty set of natural numbers has a smallest member.                *)
LEMMA NextNumber ==
  ASSUME NEW f, NEW n, NEW k, NEW m, Beside(f, n, k, m)
  PROVE  SumOfFirst(f, n, m) = SumOfFirst(f, n, k) + f[k]
<1>1. n \in Nat /\ f \in [0 .. n -> Nat]
  BY DEF Beside
<1> QED BY <1>1, FirstNumbers

(* Numbers moved down by one place, the first being 0.                     *)
LEMMA SumShifted ==
  ASSUME NEW n \in Nat, NEW f \in [0 .. n -> Nat], NEW h \in [0 .. n -> Nat], f[0] = 0,
         \A u \in 0 .. n : h[u] = IF u = n THEN 0 ELSE f[u + 1]
  PROVE  SumFunctionOnSet(h, 0 .. n) = SumFunctionOnSet(f, 0 .. n)
<1> DEFINE T == {k \in Nat : k <= n => \A m \in Nat : m = k + 1 => SumOfFirst(f, n, m) = SumOfFirst(h, n, k)}
<1>1. 0 \in T
  <2> SUFFICES ASSUME NEW m \in Nat, m = 0 + 1 PROVE SumOfFirst(f, n, m) = SumOfFirst(h, n, 0)
    OBVIOUS
  <2>1. 0 \in 0 .. n
    OBVIOUS
  <2>2. SumOfFirst(f, n, m) = SumOfFirst(f, n, 0) + f[0]
    <3>1. Beside(f, n, 0, m)
      BY <2>1 DEF Beside
    <3> QED BY <3>1, NextNumber
  <2>3. SumOfFirst(f, n, 0) = 0 /\ SumOfFirst(h, n, 0) = 0
    BY FirstNumbers
  <2> QED BY <2>2, <2>3
<1>2. ASSUME NEW k \in Nat, k \in T PROVE k + 1 \in T
  <2> SUFFICES ASSUME NEW i \in Nat, i = k + 1, i <= n, NEW m \in Nat, m = i + 1
               PROVE  SumOfFirst(f, n, m) = SumOfFirst(h, n, i)
    OBVIOUS
  <2>1. k \in 0 .. n /\ i \in 0 .. n
    OBVIOUS
  <2>2. SumOfFirst(f, n, i) = SumOfFirst(h, n, k) /\ h[k] = f[i]
    BY <1>2, <2>1
  <2> HIDE DEF T
  <2>3. SumOfFirst(f, n, m) = SumOfFirst(f, n, i) + f[i]
    <3>1. Beside(f, n, i, m)
      BY <2>1 DEF Beside
    <3> QED BY <3>1, NextNumber
  <2>4. SumOfFirst(h, n, i) = SumOfFirst(h, n, k) + h[k]
    <3>1. Beside(h, n, k, i)
      BY <2>1 DEF Beside
    <3> QED BY <3>1, NextNumber
  <2> QED BY <2>2, <2>3, <2>4
<1>3. n \in T
  <2> HIDE DEF T
  <2> QED BY <1>1, <1>2, Induction
<1>4. PICK m \in Nat : m = n + 1 /\ SumOfFirst(f, n, m) = SumOfFirst(h, n, n)
  BY <1>3
<1> HIDE DEF T
<1>5. SumOfFirst(h, n, m) = SumOfFirst(h, n, n) + h[n]
  <2>1. Beside(h, n, n, m)
    BY <1>4 DEF Beside
  <2> QED BY <2>1, NextNumber
<1>6. SumOfFirst(h, n, n) \in Nat /\ h[n] = 0
  BY FirstNumbers
<1>7. SumOfFirst(f, n, m) = SumFunctionOnSet(f, 0 .. n) /\ SumOfFirst(h, n, m) = SumFunctionOnSet(h, 0 .. n)
  BY <1>4, FirstNumbers
<1> QED BY <1>4, <1>5, <1>6, <1>7

(* Of n + 1 places, those filled once and d apart are at most n / d + 1.   *)
LEMMA SpacedSum ==
  ASSUME NEW n \in Nat, NEW d \in Nat \ {0}, NEW f \in [0 .. n -> Nat],
         \A u \in 0 .. n : f[u] <= 1,
         \A u, v \in 0 .. n : f[u] > 0 /\ f[v] > 0 /\ u < v => u + d <= v
  PROVE  SumFunctionOnSet(f, 0 .. n) <= (n \div d) + 1
<1> DEFINE Few(k) == SumOfFirst(f, n, k) * d <= (k + d) - 1
           T == {k \in Nat : \A j \in 0 .. n + 1 : j <= k => Few(j)}
<1>1. 0 \in T
  <2>1. SumOfFirst(f, n, 0) = 0 /\ 0 * d = 0
    BY FirstNumbers
  <2> QED BY <2>1
<1>2. ASSUME NEW k \in Nat, k \in T PROVE k + 1 \in T
  <2>1. ASSUME NEW m \in Nat, m = k + 1, m <= n + 1 PROVE Few(m)
    <3>1. k \in 0 .. n /\ Few(k)
      BY <1>2, <2>1
    <3>2. PICK r \in Nat : r = SumOfFirst(f, n, k)
      BY FirstNumbers
    <3>3. SumOfFirst(f, n, m) = r + f[k]
      <4>1. Beside(f, n, k, m)
        BY <2>1, <3>1 DEF Beside
      <4> QED BY <3>2, <4>1, NextNumber
    <3>4. f[k] = 0 \/ f[k] = 1
      <4> HIDE DEF T, Few
      <4>1. f[k] \in Nat /\ f[k] <= 1
        BY <3>1
      <4> QED BY <4>1
    <3>5. CASE f[k] = 0
      <4>1. SumOfFirst(f, n, m) = r
        BY <3>3, <3>5
      <4> QED BY <2>1, <3>1, <3>2, <4>1
    <3>6. CASE f[k] = 1
      <4>1. PICK j \in 0 .. n + 1 : j <= k /\ (j = (k - d) + 1 \/ (j = 0 /\ k - d < 0))
        <5> HIDE DEF T, Few
        <5>1. CASE k - d < 0
          <6>1. 0 \in 0 .. n + 1 /\ 0 <= k
            OBVIOUS
          <6> QED BY <5>1, <6>1
        <5>2. CASE k - d >= 0
          <6>1. (k - d) + 1 \in 0 .. n + 1 /\ (k - d) + 1 <= k
            BY <3>1, <5>2
          <6> QED BY <6>1
        <5> QED BY <5>1, <5>2
      <4>2. \A u \in 0 .. n : j <= u /\ u < k => f[u] = 0
        <5> HIDE DEF T, Few
        <5> SUFFICES ASSUME NEW u \in 0 .. n, j <= u, u < k, f[u] # 0 PROVE FALSE
          OBVIOUS
        <5>1. f[u] > 0 /\ f[k] > 0
          BY <3>6
        <5>2. u + d <= k
          BY <3>1, <5>1
        <5> QED BY <4>1, <5>2
      <4>3. SumOfFirst(f, n, j) = r
        <5> HIDE DEF T, Few
        <5>1. j \in Nat
          BY <4>1
        <5>2. PICK a \in [0 .. n -> Nat], b \in [0 .. n -> Nat] : a = First(f, n, j) /\ b = First(f, n, k)
          BY <5>1, FirstNumbers
        <5>3. \A u \in 0 .. n : a[u] = b[u]
          BY <4>1, <4>2, <5>2 DEF First
        <5>4. a = b
          BY <5>3
        <5> QED BY <3>2, <5>2, <5>4 DEF SumOfFirst
      <4>4. r * d <= (j + d) - 1
        <5>1. Few(j)
          BY <1>2, <4>1
        <5> QED BY <4>3, <5>1
      <4>5. (r + 1) * d = r * d + d
        OBVIOUS
      <4> HIDE DEF T
      <4>6. (r + 1) * d <= (m + d) - 1
        <5>1. CASE j = (k - d) + 1
          BY <2>1, <4>4, <4>5, <5>1
        <5>2. CASE j = 0 /\ k - d < 0
          <6>1. r = 0
            BY <4>3, <5>2, FirstNumbers
          <6> QED BY <2>1, <6>1
        <5> QED BY <4>1, <5>1, <5>2
      <4>7. SumOfFirst(f, n, m) = r + 1
        BY <3>3, <3>6
      <4> QED BY <4>6, <4>7
    <3> QED BY <3>4, <3>5, <3>6
  <2>2. ASSUME NEW j \in 0 .. n + 1, j <= k + 1 PROVE Few(j)
    <3>1. j <= k \/ j = k + 1
      BY <2>2
    <3>2. CASE j <= k
      BY <1>2, <3>2
    <3>3. CASE j = k + 1
      BY <2>1, <3>3
    <3> QED BY <3>1, <3>2, <3>3
  <2> HIDE DEF Few
  <2> QED BY <2>2
<1>3. n + 1 \in T
  <2> HIDE DEF T
  <2> QED BY <1>1, <1>2, Induction
<1>4. PICK m \in Nat : m = n + 1
  OBVIOUS
<1>5. PICK r \in Nat : r = SumFunctionOnSet(f, 0 .. n) /\ r = SumOfFirst(f, n, m)
  BY <1>4, FirstNumbers
<1>6. Few(m)
  BY <1>3, <1>4
<1>7. r * d <= n + d
  BY <1>4, <1>5, <1>6
<1> HIDE DEF Few, T
<1>8. PICK q \in Nat : q = n \div d /\ n < (q + 1) * d
  <2>1. n \div d \in Nat
    OBVIOUS
  <2>2. n < ((n \div d) + 1) * d
    OBVIOUS
  <2> QED BY <2>1, <2>2
<1>9. (q + 2) * d = (q + 1) * d + d
  OBVIOUS
<1>10. PICK x \in Nat, y \in Nat : x = r * d /\ y = (q + 2) * d
  OBVIOUS
<1>11. x < y
  BY <1>7, <1>8, <1>9, <1>10, SMTT(30)
<1>12. ~ (q + 2 <= r)
  BY <1>10, <1>11, ProductOrder
<1> QED BY <1>5, <1>8, <1>12

-----------------------------------------------------------------------------
(* Types, and the pool of entries                                          *)

Heard == [Nodes -> [sfsb_channels -> [Units -> Nat]]]
Informed == [Nodes -> [Nodes -> [sfsb_channels -> {"before", "with", "after"}]]]

(* All but what is heard, as TypeOK has it.                                *)
RestTyped ==
  /\ private \in [Nodes -> [sfsb_channels -> Units \cup {Absent}]]
  /\ informed \in Informed
  /\ instant \subseteq (Nodes \X sfsb_channels) \cup Pairs
  /\ cells \in [Nodes -> [Nodes -> BOOLEAN]] /\ open \in [Nodes -> [Nodes -> BOOLEAN]]
  /\ wait \in [Nodes -> 0 .. Interval] /\ posted \subseteq Nodes /\ stopped \in BOOLEAN
  /\ queue \in [Nodes -> [Nodes -> Seq(Signal)]]
  /\ inbox \in [Nodes -> [Nodes -> Seq(Received)]]

(* What the parts of the type say of one node, of two, of one channel.     *)
LEMMA TypeParts ==
  /\ TypeOK => RestTyped /\ heard \in [Nodes -> Heard]
  /\ RestTyped /\ heard \in [Nodes -> [Nodes -> [sfsb_channels -> [Units -> 0 .. NbrPool]]]] => TypeOK
<1>1. 0 .. NbrPool \subseteq Nat
  BY BlacklistAssumption
<1>2. TypeOK => RestTyped
  BY DEF TypeOK, RestTyped, Informed, Signal, Received
<1>3. TypeOK => heard \in [Nodes -> Heard]
  BY <1>1 DEF TypeOK, Heard
<1>4. RestTyped /\ heard \in [Nodes -> [Nodes -> [sfsb_channels -> [Units -> 0 .. NbrPool]]]] => TypeOK
  BY DEF TypeOK, RestTyped, Informed, Signal, Received
<1> QED BY <1>2, <1>3, <1>4
(* Min of two natural numbers is the smaller.                              *)
LEMMA MinOfTwo ==
  ASSUME NEW a \in Int, NEW b \in Int
  PROVE  Min({a, b}) = IF a <= b THEN a ELSE b
<1> DEFINE x == IF a <= b THEN a ELSE b
<1>1. x \in {a, b} /\ \A y \in {a, b} : x <= y
  OBVIOUS
<1>2. \A z \in {a, b} : (\A y \in {a, b} : z <= y) => z = x
  OBVIOUS
<1> HIDE DEF x
<1>3. Min({a, b}) = x
  BY <1>1, <1>2 DEF Min
<1> QED BY <1>3 DEF x
-----------------------------------------------------------------------------
(* What the operations do to the state, place by place.                    *)

(* What the stamps of a round leave of the types.                          *)
LEMMA StampedEffect ==
  ASSUME RestTyped, NEW n \in Nodes, NEW chs \in SUBSET sfsb_channels, Stamped(n, chs)
  PROVE  informed' \in Informed /\ instant' \subseteq (Nodes \X sfsb_channels) \cup Pairs
<1>1. informed \in Informed /\ instant \subseteq (Nodes \X sfsb_channels) \cup Pairs
  BY DEF RestTyped
<1>2. instant' = instant \cup ({n} \X chs)
  BY DEF Stamped
<1>3. {n} \X chs \subseteq Nodes \X sfsb_channels
  OBVIOUS
<1> DEFINE row == [m \in Nodes |-> [c \in sfsb_channels |->
                    IF c \notin chs THEN informed[n][m][c] ELSE IF <<n, m>> \in instant THEN "with" ELSE "before"]]
<1>4. row \in [Nodes -> [sfsb_channels -> {"before", "with", "after"}]]
  BY <1>1 DEF Informed
<1>5. informed' = [informed EXCEPT ![n] = row]
  BY <1>1 DEF Stamped, Informed
<1> HIDE DEF row
<1>6. informed' \in Informed
  BY <1>1, <1>4, <1>5 DEF Informed
<1> QED BY <1>1, <1>2, <1>3, <1>6

(* Sending: each neighbour of tell that has room gets one more SIGNAL.     *)
LEMMA SendEffect ==
  ASSUME RestTyped, NEW n \in Nodes, NEW tell \in SUBSET Nbrs[n], Send(n, tell)
  PROVE  /\ queue' \in [Nodes -> [Nodes -> Seq(Signal)]]
         /\ open' \in [Nodes -> [Nodes -> BOOLEAN]]
         /\ \A k, m \in Nodes :
              \/ queue'[k][m] = queue[k][m] /\ open'[k][m] = open[k][m]
              \/ /\ k = n /\ m \in Nbrs[n] /\ ~open[k][m] /\ open'[k][m]
                 /\ \E s \in Signal : s.age = 0 /\ ~s.there /\ queue'[k][m] = Append(queue[k][m], s)
<1>1. queue \in [Nodes -> [Nodes -> Seq(Signal)]] /\ open \in [Nodes -> [Nodes -> BOOLEAN]]
  BY DEF RestTyped
<1>2. n \in Nodes /\ Nbrs[n] \subseteq Nodes
  BY Constants
<1>3. PICK s : s = [chs |-> Entries(n)', age |-> 0, there |-> FALSE]
  OBVIOUS
<1>4. s \in Signal /\ s.age = 0 /\ ~s.there
  <2>1. Entries(n)' \subseteq sfsb_channels
    BY DEF Entries
  <2>2. 0 \in 0 .. MaxAge
    BY Constants
  <2> QED BY <1>3, <2>1, <2>2 DEF Signal
<1>5. PICK to \in SUBSET tell :
        /\ \A m \in to : ~open[n][m]
        /\ queue' = [queue EXCEPT ![n] = [m \in Nodes |-> IF m \in to THEN Append(@[m], s) ELSE @[m]]]
        /\ open' = [open EXCEPT ![n] = [m \in Nodes |-> @[m] \/ m \in to]]
  <2> DEFINE to == {m \in tell : cells[n][m] /\ Updated(n, m)' /\ ~open[n][m]}
  <2>1. /\ queue' = [queue EXCEPT ![n] = [m \in Nodes |-> IF m \in to THEN Append(@[m], s) ELSE @[m]]]
        /\ open' = [open EXCEPT ![n] = [m \in Nodes |-> @[m] \/ m \in to]]
    BY <1>3 DEF Send
  <2>2. to \in SUBSET tell /\ \A m \in to : ~open[n][m]
    OBVIOUS
  <2> HIDE DEF to
  <2> QED BY <2>1, <2>2
<1>6. ASSUME NEW m \in Nodes PROVE queue[n][m] \in Seq(Signal) /\ Append(queue[n][m], s) \in Seq(Signal)
  BY <1>1, <1>4, Appended
<1> DEFINE row == [m \in Nodes |-> IF m \in to THEN Append(queue[n][m], s) ELSE queue[n][m]]
           line == [m \in Nodes |-> open[n][m] \/ m \in to]
<1>7. row \in [Nodes -> Seq(Signal)] /\ line \in [Nodes -> BOOLEAN]
  BY <1>6
<1>8. queue' = [queue EXCEPT ![n] = row] /\ open' = [open EXCEPT ![n] = line]
  BY <1>1, <1>5
<1>9. \A m \in Nodes : /\ row[m] = IF m \in to THEN Append(queue[n][m], s) ELSE queue[n][m]
                       /\ line[m] = (open[n][m] \/ m \in to)
  OBVIOUS
<1> HIDE DEF row, line
<1>10. /\ queue' \in [Nodes -> [Nodes -> Seq(Signal)]] /\ open' \in [Nodes -> [Nodes -> BOOLEAN]]
       /\ queue'[n] = row /\ open'[n] = line
       /\ \A k \in Nodes : k # n => queue'[k] = queue[k] /\ open'[k] = open[k]
  BY <1>1, <1>7, <1>8
<1>11. ASSUME NEW k \in Nodes, NEW m \in Nodes
       PROVE  \/ queue'[k][m] = queue[k][m] /\ open'[k][m] = open[k][m]
              \/ /\ k = n /\ m \in Nbrs[n] /\ ~open[k][m] /\ open'[k][m]
                 /\ queue'[k][m] = Append(queue[k][m], s)
  <2>1. CASE k # n
    BY <1>10, <2>1
  <2>2. CASE k = n /\ m \notin to
    <3>1. open[n][m] \in BOOLEAN
      BY <1>1
    <3> QED BY <1>9, <1>10, <2>2, <3>1
  <2>3. CASE k = n /\ m \in to
    BY <1>5, <1>9, <1>10, <2>3
  <2> QED BY <2>1, <2>2, <2>3
<1> QED BY <1>4, <1>10, <1>11

(* SIGNALs that leave a queue or an inbox: reported, read or refused.      *)
LEMMA QueueTaken ==
  ASSUME RestTyped, NEW n \in Nodes, NEW m \in Nodes, Acked(n, m) \/ NotAcked(n, m)
  PROVE  /\ queue' \in [Nodes -> [Nodes -> Seq(Signal)]] /\ queue'[n][m] = Tail(queue[n][m])
         /\ \A k, l \in Nodes : k # n \/ l # m => queue'[k][l] = queue[k][l]
<1>1. queue \in [Nodes -> [Nodes -> Seq(Signal)]] /\ queue[n][m] \in Seq(Signal)
  BY DEF RestTyped
<1>2. queue[n][m] # <<>> /\ queue' = [queue EXCEPT ![n][m] = Tail(@)]
  BY DEF Acked, NotAcked, Under
<1>3. Tail(queue[n][m]) \in Seq(Signal)
  BY <1>1, <1>2, HeadTaken
<1>4. queue' = [queue EXCEPT ![n][m] = Tail(queue[n][m])]
  BY <1>1, <1>2
<1> QED BY <1>1, <1>3, <1>4, Replaced

LEMMA InboxTaken ==
  ASSUME RestTyped, NEW n \in Nodes, NEW m \in Nodes, SignalReqInput(n, m) \/ Refuse(n, m)
  PROVE  /\ inbox' \in [Nodes -> [Nodes -> Seq(Received)]] /\ inbox'[n][m] = Tail(inbox[n][m])
         /\ \A k, l \in Nodes : k # n \/ l # m => inbox'[k][l] = inbox[k][l]
<1>1. inbox \in [Nodes -> [Nodes -> Seq(Received)]] /\ inbox[n][m] \in Seq(Received)
  BY DEF RestTyped
<1>2. inbox[n][m] # <<>> /\ inbox' = [inbox EXCEPT ![n][m] = Tail(@)]
  BY DEF SignalReqInput, Refuse
<1>3. Tail(inbox[n][m]) \in Seq(Received)
  BY <1>1, <1>2, HeadTaken
<1>4. inbox' = [inbox EXCEPT ![n][m] = Tail(inbox[n][m])]
  BY <1>1, <1>2
<1> QED BY <1>1, <1>3, <1>4, Replaced

(* SIGNAL s arrives, of which the receiver gets r and the sender keeps the *)
(* queue q.                                                                *)
Arrived(n, m, s, r, q) ==
  /\ queue[n][m] # <<>> /\ s = queue[n][m][1] /\ ~s.there
  /\ r.chs = s.chs /\ r.age = s.age
  /\ DOMAIN q = DOMAIN queue[n][m] /\ q[1] = [s EXCEPT !.there = TRUE]
  /\ \A i \in DOMAIN queue[n][m] : i # 1 => q[i] = queue[n][m][i]
  /\ queue' \in [Nodes -> [Nodes -> Seq(Signal)]] /\ queue'[n][m] = q
  /\ \A k, l \in Nodes : k # n \/ l # m => queue'[k][l] = queue[k][l]
  /\ inbox' \in [Nodes -> [Nodes -> Seq(Received)]] /\ inbox'[m][n] = Append(inbox[m][n], r)
  /\ \A k, l \in Nodes : k # m \/ l # n => inbox'[k][l] = inbox[k][l]

(* The SIGNAL at the head of a queue arrives: it is marked there, and      *)
(* appended to the inbox.                                                  *)
LEMMA ArriveEffect ==
  ASSUME RestTyped, NEW n \in Nodes, NEW m \in Nodes, Arrive(n, m)
  PROVE  \E s \in Signal, r \in Received, q \in Seq(Signal) : Arrived(n, m, s, r, q)
<1>1. queue \in [Nodes -> [Nodes -> Seq(Signal)]] /\ inbox \in [Nodes -> [Nodes -> Seq(Received)]]
  BY DEF RestTyped
<1>2. /\ queue[n][m] # <<>> /\ ~Head(queue[n][m]).there
      /\ queue' = [queue EXCEPT ![n][m][1].there = TRUE]
      /\ inbox' = [inbox EXCEPT ![m][n] =
           Append(@, [chs |-> Head(queue[n][m]).chs, age |-> Head(queue[n][m]).age])]
  BY DEF Arrive, Under
<1>3. queue[n][m] \in Seq(Signal) /\ inbox[m][n] \in Seq(Received)
  BY <1>1
<1>4. PICK s \in Signal : s = Head(queue[n][m]) /\ s = queue[n][m][1] /\ 1 \in DOMAIN queue[n][m]
  BY <1>2, <1>3, HeadTaken
<1>5. PICK r \in Received : r = [chs |-> s.chs, age |-> s.age]
  BY <1>4 DEF Signal, Received
<1>6. PICK q \in Seq(Signal) :
        /\ q = [queue[n][m] EXCEPT ![1].there = TRUE] /\ DOMAIN q = DOMAIN queue[n][m]
        /\ q[1] = [s EXCEPT !.there = TRUE]
        /\ \A i \in DOMAIN queue[n][m] : i # 1 => q[i] = queue[n][m][i]
  <2> DEFINE t == [s EXCEPT !.there = TRUE]
             q == [queue[n][m] EXCEPT ![1] = t]
  <2>1. t \in Signal
    BY <1>4 DEF Signal
  <2>2. DOMAIN queue[n][m] = 1 .. Len(queue[n][m])
    BY <1>3, Places
  <2>3. q \in Seq(Signal) /\ \A i \in DOMAIN queue[n][m] : q[i] = IF i = 1 THEN t ELSE queue[n][m][i]
    <3> HIDE DEF t
    <3> QED BY <1>3, <1>4, <2>1, <2>2, ExceptSeq
  <2>4. DOMAIN q = DOMAIN queue[n][m] /\ q = [queue[n][m] EXCEPT ![1].there = TRUE]
    BY <1>4
  <2> HIDE DEF q
  <2>5. q[1] = t
    BY <1>4, <2>3
  <2> QED BY <2>3, <2>4, <2>5
<1>7. /\ queue' \in [Nodes -> [Nodes -> Seq(Signal)]] /\ queue'[n][m] = q
      /\ \A k, l \in Nodes : k # n \/ l # m => queue'[k][l] = queue[k][l]
  <2>1. queue' = [queue EXCEPT ![n][m] = q]
    BY <1>1, <1>2, <1>6
  <2> QED BY <1>1, <2>1, Replaced
<1>8. /\ inbox' \in [Nodes -> [Nodes -> Seq(Received)]] /\ inbox'[m][n] = Append(inbox[m][n], r)
      /\ \A k, l \in Nodes : k # m \/ l # n => inbox'[k][l] = inbox[k][l]
  <2>1. inbox' = [inbox EXCEPT ![m][n] = Append(inbox[m][n], r)]
    BY <1>1, <1>2, <1>4, <1>5
  <2>2. Append(inbox[m][n], r) \in Seq(Received)
    BY <1>3, Appended
  <2> QED BY <1>1, <2>1, <2>2, Replaced
<1>9. r.chs = s.chs /\ r.age = s.age /\ ~s.there
  BY <1>2, <1>4, <1>5
<1>10. Arrived(n, m, s, r, q)
  BY <1>2, <1>4, <1>6, <1>7, <1>8, <1>9 DEF Arrived
<1> QED BY <1>4, <1>5, <1>6, <1>10

(* A SIGNAL s of m is read by n: the channels of new become entries.       *)
Unpacked(n, m, s, new) ==
  /\ Cardinality(new) = Min({NbrPool - Used(n), Cardinality(s.chs \ (s.chs \cap Entries(n)))})
  /\ heard' \in [Nodes -> Heard]
  /\ \A c \in sfsb_channels, u \in Units :
       heard'[n][m][c][u] = IF c \in new /\ u = Left(s) THEN heard[n][m][c][u] + 1 ELSE heard[n][m][c][u]
  /\ \A k, l \in Nodes : k # n \/ l # m => heard'[k][l] = heard[k][l]

(* sfsb_bl_unpack, of what a neighbour's list gets.                        *)
LEMMA UnpackEffect ==
  ASSUME RestTyped, heard \in [Nodes -> Heard], NEW n \in Nodes, NEW m \in Nodes, NEW s \in Received,
         Unpack(n, m, s)
  PROVE  \E new \in SUBSET s.chs : Unpacked(n, m, s, new)
<1>1. PICK new \in Allocated(s.chs \ (s.chs \cap Entries(n)), NbrPool - Used(n)) :
        heard' = [heard EXCEPT ![n][m] = [c \in sfsb_channels |-> [u \in Units |->
          IF c \in new /\ u = Left(s) THEN @[c][u] + 1 ELSE @[c][u]]]]
  BY DEF Unpack
<1>2. new \in SUBSET s.chs
      /\ Cardinality(new) = Min({NbrPool - Used(n), Cardinality(s.chs \ (s.chs \cap Entries(n)))})
  BY <1>1 DEF Allocated
<1> DEFINE Of == [sfsb_channels -> [Units -> Nat]]
           l == [c \in sfsb_channels |-> [u \in Units |->
                   IF c \in new /\ u = Left(s) THEN heard[n][m][c][u] + 1 ELSE heard[n][m][c][u]]]
<1>3. heard \in [Nodes -> [Nodes -> Of]] /\ heard[n][m] \in Of
  BY DEF Heard
<1>4. l \in Of
  BY <1>3
<1>5. heard' = [heard EXCEPT ![n][m] = l]
  BY <1>1
<1>6. \A c \in sfsb_channels, u \in Units :
        l[c][u] = IF c \in new /\ u = Left(s) THEN heard[n][m][c][u] + 1 ELSE heard[n][m][c][u]
  OBVIOUS
<1> HIDE DEF l, Of
<1>7. /\ heard' \in [Nodes -> [Nodes -> Of]] /\ heard'[n][m] = l
      /\ \A k, j \in Nodes : k # n \/ j # m => heard'[k][j] = heard[k][j]
  BY <1>3, <1>4, <1>5, Replaced
<1>8. heard' \in [Nodes -> Heard]
  BY <1>7 DEF Heard, Of
<1>9. Unpacked(n, m, s, new)
  BY <1>2, <1>6, <1>7, <1>8 DEF Unpacked
<1> QED BY <1>2, <1>9

(* Reading a SIGNAL keeps the types of all it changes but the entries      *)
(* heard.                                                                  *)
LEMMA UnpackRest ==
  ASSUME RestTyped, NEW n \in Nodes, NEW m \in Nodes, NEW s \in Received, Unpack(n, m, s)
  PROVE  /\ private' \in [Nodes -> [sfsb_channels -> Units \cup {Absent}]]
         /\ informed' \in Informed /\ instant' \subseteq (Nodes \X sfsb_channels) \cup Pairs
<1>1. /\ private' = [private EXCEPT ![n] =
           [c \in sfsb_channels |-> IF c \in s.chs \cap Entries(n) THEN Left(s) ELSE @[c]]]
      /\ Stamped(n, s.chs \cap Entries(n))
  BY DEF Unpack
<1>2. Left(s) \in Units /\ s.chs \cap Entries(n) \in SUBSET sfsb_channels
  <2>1. s.age \in 0 .. MaxAge /\ s.chs \subseteq sfsb_channels
    BY DEF Received
  <2> QED BY <2>1, Constants DEF Left
<1>3. private' \in [Nodes -> [sfsb_channels -> Units \cup {Absent}]]
  BY <1>1, <1>2 DEF RestTyped
<1>4. informed' \in Informed /\ instant' \subseteq (Nodes \X sfsb_channels) \cup Pairs
  BY <1>1, <1>2, StampedEffect
<1> QED BY <1>3, <1>4

(* A round changes a node's own entries, and what it has told, within      *)
(* their types.                                                            *)
LEMMA AddUpdateEffect ==
  ASSUME RestTyped, NEW n \in Nodes, AddUpdate(n, sfsb_channels)
  PROVE  /\ private' \in [Nodes -> [sfsb_channels -> Units \cup {Absent}]]
         /\ informed' \in Informed /\ instant' \subseteq (Nodes \X sfsb_channels) \cup Pairs
<1>1. PICK new \in Allocated(sfsb_channels \ Entries(n), PrivatePool - Cardinality(Entries(n))) :
        /\ private' = [private EXCEPT ![n] =
             [c \in sfsb_channels |-> IF c \in (sfsb_channels \cap Entries(n)) \cup new THEN Lifetime ELSE @[c]]]
        /\ Stamped(n, (sfsb_channels \cap Entries(n)) \cup new)
  BY DEF AddUpdate
<1>2. Lifetime \in Units /\ (sfsb_channels \cap Entries(n)) \cup new \in SUBSET sfsb_channels
  BY <1>1, Constants DEF Allocated
<1>3. private' \in [Nodes -> [sfsb_channels -> Units \cup {Absent}]]
  BY <1>1, <1>2 DEF RestTyped
<1>4. informed' \in Informed /\ instant' \subseteq (Nodes \X sfsb_channels) \cup Pairs
  BY <1>1, <1>2, StampedEffect
<1> QED BY <1>3, <1>4

(* An entry heard expires: one copy less, at one place.                    *)
LEMMA ExpireHeardEffect ==
  ASSUME heard \in [Nodes -> Heard], NEW n \in Nodes, NEW m \in Nodes, NEW c \in sfsb_channels,
         ExpireHeard(n, m, c)
  PROVE  /\ heard' \in [Nodes -> Heard]
         /\ \A k, l \in Nodes, d \in sfsb_channels, u \in Units : heard'[k][l][d][u] <= heard[k][l][d][u]
<1>1. heard[n][m][c][0] > 0 /\ heard' = [heard EXCEPT ![n][m][c][0] = @ - 1]
  BY DEF ExpireHeard
<1> DEFINE Of == [sfsb_channels -> [Units -> Nat]]
           l == [heard[n][m] EXCEPT ![c][0] = @ - 1]
<1>2. heard \in [Nodes -> [Nodes -> Of]] /\ heard[n][m] \in Of /\ heard[n][m][c] \in [Units -> Nat] /\ 0 \in Units
  <2>1. heard \in [Nodes -> [Nodes -> Of]]
    BY DEF Heard
  <2>2. 0 \in Units
    BY Constants
  <2> QED BY <2>1, <2>2
<1>3. heard[n][m][c][0] - 1 \in Nat
  BY <1>1, <1>2
<1>4. l \in Of
  <2>1. [heard[n][m][c] EXCEPT ![0] = @ - 1] \in [Units -> Nat]
    BY <1>2, <1>3
  <2> QED BY <1>2, <2>1
<1>5. \A d \in sfsb_channels, u \in Units : l[d][u] <= heard[n][m][d][u]
  BY <1>2
<1>6. heard' = [heard EXCEPT ![n][m] = l]
  BY <1>1, <1>2
<1>7. \A k, j \in Nodes, d \in sfsb_channels, u \in Units : heard[k][j][d][u] \in Nat
  BY <1>2
<1> HIDE DEF l, Of
<1>8. /\ heard' \in [Nodes -> [Nodes -> Of]] /\ heard'[n][m] = l
      /\ \A k, j \in Nodes : k # n \/ j # m => heard'[k][j] = heard[k][j]
  BY <1>2, <1>4, <1>6, Replaced
<1>9. ASSUME NEW k \in Nodes, NEW j \in Nodes, NEW d \in sfsb_channels, NEW u \in Units
      PROVE  heard'[k][j][d][u] <= heard[k][j][d][u]
  <2>1. CASE k = n /\ j = m
    BY <1>5, <1>8, <2>1
  <2>2. CASE k # n \/ j # m
    <3>1. heard'[k][j] = heard[k][j] /\ heard[k][j][d][u] \in Nat
      BY <1>7, <1>8, <2>2
    <3> QED BY <3>1
  <2> QED BY <2>1, <2>2
<1>10. heard' \in [Nodes -> Heard]
  BY <1>8 DEF Heard, Of
<1> QED BY <1>9, <1>10

(* A unit of time: entries and SIGNALs are a unit older.                   *)
LEMMA LaterEffect ==
  ASSUME RestTyped, heard \in [Nodes -> Heard], Later
  PROVE  /\ heard' \in [Nodes -> Heard]
         /\ \A n, m \in Nodes, c \in sfsb_channels :
              /\ heard[n][m][c][0] = 0
              /\ \A u \in Units : /\ u # Lifetime => u + 1 \in Units
                                  /\ heard'[n][m][c][u] = IF u = Lifetime THEN 0 ELSE heard[n][m][c][u + 1]
         /\ queue' \in [Nodes -> [Nodes -> Seq(Signal)]]
         /\ \A n, m \in Nodes :
              /\ DOMAIN queue'[n][m] = DOMAIN queue[n][m]
              /\ \A i \in DOMAIN queue[n][m] :
                   /\ queue'[n][m][i].age = queue[n][m][i].age + 1
                   /\ queue'[n][m][i].there = queue[n][m][i].there
         /\ private' \in [Nodes -> [sfsb_channels -> Units \cup {Absent}]]
         /\ wait' \in [Nodes -> 0 .. Interval] /\ \A n \in Nodes : wait'[n] <= wait[n] + 1
<1>1. /\ \A n \in Nodes, c \in sfsb_channels : private[n][c] # 0
      /\ \A n, m \in Nodes : /\ \A i \in DOMAIN queue[n][m] : queue[n][m][i].age < MaxAge
                             /\ \A c \in sfsb_channels : heard[n][m][c][0] = 0
      /\ private' = [n \in Nodes |-> [c \in sfsb_channels |->
           IF private[n][c] = Absent THEN Absent ELSE private[n][c] - 1]]
      /\ heard' = [n \in Nodes |-> [m \in Nodes |-> [c \in sfsb_channels |-> [u \in Units |->
           IF u = Lifetime THEN 0 ELSE heard[n][m][c][u + 1]]]]]
      /\ queue' = [n \in Nodes |-> [m \in Nodes |->
           [i \in DOMAIN queue[n][m] |-> [queue[n][m][i] EXCEPT !.age = @ + 1]]]]
      /\ wait' = [n \in Nodes |-> Min({wait[n] + 1, Interval})]
  BY DEF Later
<1>2. ASSUME NEW n \in Nodes, NEW m \in Nodes, NEW c \in sfsb_channels, NEW u \in Units
      PROVE  /\ heard'[n][m][c][u] = IF u = Lifetime THEN 0 ELSE heard[n][m][c][u + 1]
             /\ heard'[n][m][c][u] \in Nat /\ (u # Lifetime => u + 1 \in Units)
  <2>1. heard[n][m][c] \in [Units -> Nat]
    BY DEF Heard
  <2>2. heard'[n][m][c][u] = IF u = Lifetime THEN 0 ELSE heard[n][m][c][u + 1]
    BY <1>1
  <2>3. u # Lifetime => u + 1 \in Units
    BY Constants
  <2> QED BY <2>1, <2>2, <2>3
<1>3. heard' \in [Nodes -> Heard]
  BY <1>1, <1>2 DEF Heard
<1>4. ASSUME NEW n \in Nodes, NEW m \in Nodes
      PROVE  /\ queue'[n][m] \in Seq(Signal) /\ DOMAIN queue'[n][m] = DOMAIN queue[n][m]
             /\ \A i \in DOMAIN queue[n][m] : /\ queue'[n][m][i].age = queue[n][m][i].age + 1
                                              /\ queue'[n][m][i].there = queue[n][m][i].there
  <2>1. /\ queue[n][m] \in Seq(Signal) /\ Len(queue[n][m]) \in Nat /\ DOMAIN queue[n][m] = 1 .. Len(queue[n][m])
        /\ \A i \in DOMAIN queue[n][m] : queue[n][m][i] \in Signal
    <3>1. queue[n][m] \in Seq(Signal)
      BY DEF RestTyped
    <3> QED BY <3>1, Places
  <2>2. queue'[n][m] = [i \in DOMAIN queue[n][m] |-> [queue[n][m][i] EXCEPT !.age = @ + 1]]
    BY <1>1
  <2>3. ASSUME NEW i \in DOMAIN queue[n][m]
        PROVE  /\ queue'[n][m][i] \in Signal /\ queue'[n][m][i].there = queue[n][m][i].there
               /\ queue'[n][m][i].age = queue[n][m][i].age + 1
    <3>1. PICK s \in Signal : s = queue[n][m][i] /\ s.age < MaxAge /\ queue'[n][m][i] = [s EXCEPT !.age = @ + 1]
      BY <1>1, <2>1, <2>2
    <3>2. s.age + 1 \in 0 .. MaxAge
      BY <3>1, Constants DEF Signal
    <3> QED BY <3>1, <3>2 DEF Signal
  <2>4. queue'[n][m] \in [1 .. Len(queue[n][m]) -> Signal]
    BY <2>1, <2>2, <2>3
  <2>5. queue'[n][m] \in Seq(Signal)
    <3> HIDE DEF Signal
    <3> QED BY <2>1, <2>4, SeqDef
  <2> QED BY <2>2, <2>3, <2>5
<1>5. queue' \in [Nodes -> [Nodes -> Seq(Signal)]]
  <2>1. queue' = [n \in Nodes |-> [m \in Nodes |-> queue'[n][m]]]
    BY <1>1
  <2> QED BY <1>4, <2>1
<1>6. private' \in [Nodes -> [sfsb_channels -> Units \cup {Absent}]]
  <2>1. ASSUME NEW n \in Nodes, NEW c \in sfsb_channels
        PROVE  (IF private[n][c] = Absent THEN Absent ELSE private[n][c] - 1) \in Units \cup {Absent}
    <3>1. private[n][c] \in Units \cup {Absent} /\ private[n][c] # 0
      BY <1>1 DEF RestTyped
    <3> QED BY <3>1, Constants
  <2> QED BY <1>1, <2>1
<1>7. ASSUME NEW n \in Nodes PROVE Min({wait[n] + 1, Interval}) \in 0 .. Interval /\ Min({wait[n] + 1, Interval}) <= wait[n] + 1
  <2>1. wait[n] \in 0 .. Interval /\ Interval \in Nat
    BY BlacklistAssumption DEF RestTyped
  <2>2. Min({wait[n] + 1, Interval}) = IF wait[n] + 1 <= Interval THEN wait[n] + 1 ELSE Interval
    BY <2>1, MinOfTwo
  <2> QED BY <2>1, <2>2
<1>8. wait' \in [Nodes -> 0 .. Interval] /\ \A n \in Nodes : wait'[n] <= wait[n] + 1
  BY <1>1, <1>7
<1>9. \A n, m \in Nodes, c \in sfsb_channels :
        /\ heard[n][m][c][0] = 0
        /\ \A u \in Units : /\ u # Lifetime => u + 1 \in Units
                            /\ heard'[n][m][c][u] = IF u = Lifetime THEN 0 ELSE heard[n][m][c][u + 1]
  BY <1>1, <1>2, Zenon
<1>10. \A n, m \in Nodes :
         /\ DOMAIN queue'[n][m] = DOMAIN queue[n][m]
         /\ \A i \in DOMAIN queue[n][m] :
              /\ queue'[n][m][i].age = queue[n][m][i].age + 1
              /\ queue'[n][m][i].there = queue[n][m][i].there
  BY <1>4, Zenon
<1> QED BY <1>3, <1>5, <1>6, <1>8, <1>9, <1>10, Zenon

(* The types of all but what is heard.                                     *)
LEMMA RestKept ==
  ASSUME RestTyped, heard \in [Nodes -> Heard], [Next]_vars
  PROVE  RestTyped'
<1>1. ASSUME NEW n \in Nodes, NEW tell \in SUBSET Nbrs[n], Round(n, tell) \/ Distribute(n, tell) PROVE RestTyped'
  <2>1. queue' \in [Nodes -> [Nodes -> Seq(Signal)]] /\ open' \in [Nodes -> [Nodes -> BOOLEAN]]
    <3>1. Send(n, tell)
      BY <1>1 DEF Round, Distribute
    <3> QED BY <3>1, SendEffect
  <2>2. CASE Round(n, tell)
    <3>1. /\ private' \in [Nodes -> [sfsb_channels -> Units \cup {Absent}]]
          /\ informed' \in Informed /\ instant' \subseteq (Nodes \X sfsb_channels) \cup Pairs
      BY <2>2, AddUpdateEffect DEF Round
    <3>2. wait' \in [Nodes -> 0 .. Interval]
      <4>1. 0 \in 0 .. Interval
        BY BlacklistAssumption
      <4> QED BY <2>2, <4>1 DEF Round, RestTyped
    <3> QED BY <2>1, <2>2, <3>1, <3>2 DEF Round, RestTyped
  <2>3. CASE Distribute(n, tell)
    BY <2>1, <2>3 DEF Distribute, RestTyped, lists
  <2> QED BY <1>1, <2>2, <2>3
<1>2. ASSUME NEW p \in Pairs,
             \/ Arrive(p[1], p[2]) \/ Acked(p[1], p[2]) \/ NotAcked(p[1], p[2])
             \/ SignalReqInput(p[1], p[2]) \/ Refuse(p[1], p[2])
             \/ TransTimeout(p[1], p[2]) \/ Negotiated(p[1], p[2])
             \/ \E c \in sfsb_channels : ExpireHeard(p[1], p[2], c)
      PROVE  RestTyped'
  <2>0. PICK n \in Nodes, m \in Nodes : n = p[1] /\ m = p[2] /\ <<n, m>> \in Pairs
    BY DEF Pairs
  <2>1. CASE Arrive(n, m)
    <3>1. queue' \in [Nodes -> [Nodes -> Seq(Signal)]] /\ inbox' \in [Nodes -> [Nodes -> Seq(Received)]]
      BY <2>1, ArriveEffect DEF Arrived
    <3> QED BY <2>1, <3>1 DEF Arrive, RestTyped, lists
  <2>2. CASE Acked(n, m)
    <3>1. queue' \in [Nodes -> [Nodes -> Seq(Signal)]]
      BY <2>2, QueueTaken
    <3>2. informed' \in Informed
      BY <2>2 DEF Acked, RestTyped, Informed
    <3>3. instant' \subseteq (Nodes \X sfsb_channels) \cup Pairs
      BY <2>0, <2>2 DEF Acked, RestTyped
    <3> QED BY <2>2, <3>1, <3>2, <3>3 DEF Acked, RestTyped
  <2>3. CASE NotAcked(n, m)
    <3>1. queue' \in [Nodes -> [Nodes -> Seq(Signal)]]
      BY <2>3, QueueTaken
    <3> QED BY <2>3, <3>1 DEF NotAcked, RestTyped, lists
  <2>4. CASE SignalReqInput(n, m)
    <3>1. PICK s \in Received : Unpack(n, m, s)
      <4>1. inbox[n][m] \in Seq(Received) /\ inbox[n][m] # <<>> /\ Unpack(n, m, Head(inbox[n][m]))
        BY <2>4 DEF SignalReqInput, RestTyped
      <4> QED BY <4>1, HeadTaken
    <3>2. /\ private' \in [Nodes -> [sfsb_channels -> Units \cup {Absent}]]
          /\ informed' \in Informed /\ instant' \subseteq (Nodes \X sfsb_channels) \cup Pairs
      BY <3>1, UnpackRest
    <3>3. inbox' \in [Nodes -> [Nodes -> Seq(Received)]]
      BY <2>4, InboxTaken
    <3> QED BY <2>4, <3>2, <3>3 DEF SignalReqInput, RestTyped
  <2>5. CASE Refuse(n, m)
    <3>1. inbox' \in [Nodes -> [Nodes -> Seq(Received)]]
      BY <2>5, InboxTaken
    <3> QED BY <2>5, <3>1 DEF Refuse, RestTyped, lists
  <2>6. CASE TransTimeout(n, m)
    BY <2>6 DEF TransTimeout, RestTyped, lists
  <2>7. CASE Negotiated(n, m)
    BY <2>7 DEF Negotiated, RestTyped, lists, signals
  <2>8. CASE \E c \in sfsb_channels : ExpireHeard(n, m, c)
    BY <2>8 DEF ExpireHeard, RestTyped, signals
  <2> QED BY <1>2, <2>0, <2>1, <2>2, <2>3, <2>4, <2>5, <2>6, <2>7, <2>8
<1>3. ASSUME NEW n \in Nodes, NEW c \in sfsb_channels, Expire(n, c) PROVE RestTyped'
  <2>1. private' \in [Nodes -> [sfsb_channels -> Units \cup {Absent}]]
    BY <1>3 DEF Expire, RestTyped
  <2> QED BY <1>3, <2>1 DEF Expire, RestTyped, signals
<1>4. CASE Stop \/ UNCHANGED vars
  BY <1>4 DEF Stop, RestTyped, vars, lists, signals
<1>5. CASE Tick
  BY <1>5 DEF Tick, RestTyped, lists, signals
<1>6. CASE Later
  <2>1. /\ queue' \in [Nodes -> [Nodes -> Seq(Signal)]] /\ wait' \in [Nodes -> 0 .. Interval]
        /\ private' \in [Nodes -> [sfsb_channels -> Units \cup {Absent}]]
    BY <1>6, LaterEffect
  <2> QED BY <1>6, <2>1 DEF Later, RestTyped
<1> QED BY <1>1, <1>2, <1>3, <1>4, <1>5, <1>6 DEF Next
-----------------------------------------------------------------------------
(* The blocks of mem_nbr_bl_ent that received lists g take.                *)
Blocks(g, p) == SumFunctionOnSet(g[p[1]][p[2]], Units)
Table(g, n) == [p \in Nbrs[n] \X sfsb_channels |-> Blocks(g, p)]
InUse(g, n) == SumFunctionOnSet(Table(g, n), Nbrs[n] \X sfsb_channels)

(* All sets that are summed over or counted are finite.                    *)
LEMMA FiniteParts ==
  /\ IsFiniteSet(Units) /\ IsFiniteSet(sfsb_channels)
  /\ \A n \in Nodes : Nbrs[n] \subseteq Nodes /\ IsFiniteSet(Nbrs[n] \X sfsb_channels)
<1>1. IsFiniteSet(Units)
  BY Constants, FS_Interval
<1>2. IsFiniteSet(sfsb_channels)
  <2>1. PICK S : S = 11 .. 26
    OBVIOUS
  <2>2. IsFiniteSet(S)
    <3>1. 11 \in Int /\ 26 \in Int
      OBVIOUS
    <3>2. IsFiniteSet(11 .. 26)
      BY <3>1, FS_Interval
    <3> QED BY <2>1, <3>2, Zenon
  <2> QED BY <2>1, <2>2, BlacklistAssumption, FS_Subset
<1>3. ASSUME NEW n \in Nodes PROVE Nbrs[n] \subseteq Nodes /\ IsFiniteSet(Nbrs[n] \X sfsb_channels)
  <2>1. Nbrs[n] \subseteq Nodes
    BY BlacklistAssumption
  <2>2. IsFiniteSet(Nbrs[n])
    BY <2>1, BlacklistAssumption, FS_Subset
  <2> QED BY <1>2, <2>1, <2>2, FS_Product
<1> QED BY <1>1, <1>2, <1>3

(* The blocks of a neighbour and channel are a natural number.             *)
LEMMA BlocksType ==
  ASSUME NEW g \in Heard, NEW p \in Nodes \X sfsb_channels
  PROVE  /\ g[p[1]][p[2]] \in [Units -> Nat] /\ Blocks(g, p) \in Nat
         /\ \A u \in Units : g[p[1]][p[2]][u] <= Blocks(g, p)
<1>1. PICK f \in [Units -> Nat] : f = g[p[1]][p[2]]
  BY DEF Heard
<1>2. SumFunctionOnSet(f, Units) \in Nat /\ \A u \in Units : f[u] <= SumFunctionOnSet(f, Units)
  BY FiniteParts, SumType, SumBounds
<1> QED BY <1>1, <1>2 DEF Blocks

(* The blocks in use are the sum of a function into the naturals.          *)
LEMMA TableType ==
  ASSUME NEW g \in Heard, NEW n \in Nodes
  PROVE  /\ Table(g, n) \in [Nbrs[n] \X sfsb_channels -> Nat] /\ InUse(g, n) \in Nat
         /\ \A p \in Nbrs[n] \X sfsb_channels : Table(g, n)[p] = Blocks(g, p) /\ Blocks(g, p) <= InUse(g, n)
<1>1. PICK S : S = Nbrs[n] \X sfsb_channels
  OBVIOUS
<1>2. IsFiniteSet(S) /\ \A p \in S : Blocks(g, p) \in Nat
  <2>1. IsFiniteSet(S)
    BY <1>1, FiniteParts
  <2>2. ASSUME NEW p \in S PROVE Blocks(g, p) \in Nat
    <3>1. p \in Nodes \X sfsb_channels
      BY <1>1, FiniteParts
    <3> QED BY <3>1, BlocksType
  <2> QED BY <2>1, <2>2
<1>3. PICK f \in [S -> Nat] : f = Table(g, n) /\ \A p \in S : f[p] = Blocks(g, p)
  <2> DEFINE f == [p \in S |-> Blocks(g, p)]
  <2>1. f \in [S -> Nat] /\ \A p \in S : f[p] = Blocks(g, p)
    BY <1>2
  <2>2. f = Table(g, n)
    BY <1>1 DEF Table
  <2> QED BY <2>1, <2>2
<1>4. SumFunctionOnSet(f, S) \in Nat /\ \A p \in S : f[p] <= SumFunctionOnSet(f, S)
  BY <1>2, SumType, SumBounds
<1> QED BY <1>1, <1>3, <1>4 DEF InUse

(* Lists with no more entries take no more blocks.                         *)
LEMMA NoMoreInUse ==
  ASSUME NEW g \in Heard, NEW h \in Heard, NEW n \in Nodes,
         \A p \in Nbrs[n] \X sfsb_channels : Blocks(h, p) <= Blocks(g, p)
  PROVE  InUse(h, n) <= InUse(g, n)
<1>1. PICK S : S = Nbrs[n] \X sfsb_channels
  OBVIOUS
<1>2. PICK a \in [S -> Nat] : a = Table(g, n) /\ \A p \in S : a[p] = Blocks(g, p)
  BY <1>1, TableType
<1>3. PICK b \in [S -> Nat] : b = Table(h, n) /\ \A p \in S : b[p] = Blocks(h, p)
  BY <1>1, TableType
<1>4. IsFiniteSet(S) /\ \A p \in S : b[p] <= a[p]
  BY <1>1, <1>2, <1>3, FiniteParts
<1>5. SumFunctionOnSet(b, S) <= SumFunctionOnSet(a, S)
  BY <1>4, SumMonotone
<1> QED BY <1>1, <1>2, <1>3, <1>5 DEF InUse

(* No entry more: no block more.                                           *)
LEMMA NoMoreBlocks ==
  ASSUME NEW g \in Heard, NEW h \in Heard, NEW p \in Nodes \X sfsb_channels,
         \A u \in Units : h[p[1]][p[2]][u] <= g[p[1]][p[2]][u]
  PROVE  Blocks(h, p) <= Blocks(g, p)
<1>1. PICK a \in [Units -> Nat], b \in [Units -> Nat] : a = g[p[1]][p[2]] /\ b = h[p[1]][p[2]]
  BY BlocksType
<1>2. SumFunctionOnSet(b, Units) <= SumFunctionOnSet(a, Units)
  BY <1>1, FiniteParts, SumMonotone
<1> QED BY <1>1, <1>2 DEF Blocks

(* An entry more for each channel of new takes as many blocks more.        *)
LEMMA OneMoreEach ==
  ASSUME NEW g \in Heard, NEW h \in Heard, NEW n \in Nodes, NEW m \in Nbrs[n], NEW new \in SUBSET sfsb_channels,
         NEW v \in Units,
         \A c \in sfsb_channels, u \in Units : h[m][c][u] = IF c \in new /\ u = v THEN g[m][c][u] + 1 ELSE g[m][c][u],
         \A l \in Nodes : l # m => h[l] = g[l]
  PROVE  InUse(h, n) = InUse(g, n) + Cardinality(new)
<1>1. PICK S : S = Nbrs[n] \X sfsb_channels
  OBVIOUS
<1>2. PICK a \in [S -> Nat] : a = Table(g, n) /\ \A p \in S : a[p] = Blocks(g, p)
  <2>1. /\ Table(g, n) \in [Nbrs[n] \X sfsb_channels -> Nat]
        /\ \A p \in Nbrs[n] \X sfsb_channels : Table(g, n)[p] = Blocks(g, p)
    BY TableType
  <2> QED BY <1>1, <2>1
<1>7. PICK b \in [S -> Nat] : b = Table(h, n) /\ \A p \in S : b[p] = Blocks(h, p)
  <2>1. /\ Table(h, n) \in [Nbrs[n] \X sfsb_channels -> Nat]
        /\ \A p \in Nbrs[n] \X sfsb_channels : Table(h, n)[p] = Blocks(h, p)
    BY TableType
  <2> QED BY <1>1, <2>1
<1>3. PICK T \in SUBSET S : T = {m} \X new
  BY <1>1
<1>4. ASSUME NEW p \in S PROVE b[p] = IF p \in T THEN a[p] + 1 ELSE a[p]
  <2>1. p \in Nodes \X sfsb_channels /\ (p \in T <=> p[1] = m /\ p[2] \in new)
    BY <1>1, <1>3, FiniteParts
  <2>2. PICK e \in [Units -> Nat], f \in [Units -> Nat] : e = g[p[1]][p[2]] /\ f = h[p[1]][p[2]]
    BY <2>1, BlocksType
  <2>3. CASE p \in T
    <3>1. \A u \in Units : f[u] = IF u \in {v} THEN e[u] + 1 ELSE e[u]
      BY <2>1, <2>2, <2>3
    <3>2. SumFunctionOnSet(f, Units) = SumFunctionOnSet(e, Units) + Cardinality({v})
      <4> {v} \in SUBSET Units
        OBVIOUS
      <4> QED BY <3>1, FiniteParts, SumCounted
    <3>3. Cardinality({v}) = 1
      BY FS_Singleton
    <3>4. Blocks(h, p) = Blocks(g, p) + 1
      BY <2>2, <3>2, <3>3 DEF Blocks
    <3> QED BY <1>2, <1>7, <2>3, <3>4
  <2>4. CASE p \notin T
    <3>1. \A u \in Units : f[u] = e[u]
      <4>1. CASE p[1] = m
        BY <2>1, <2>2, <2>4, <4>1
      <4>2. CASE p[1] # m
        BY <2>1, <2>2, <4>2
      <4> QED BY <4>1, <4>2
    <3>2. f = e
      BY <3>1
    <3>3. Blocks(h, p) = Blocks(g, p)
      BY <2>2, <3>2 DEF Blocks
    <3> QED BY <1>2, <1>7, <2>4, <3>3
  <2> QED BY <2>3, <2>4
<1>5. SumFunctionOnSet(b, S) = SumFunctionOnSet(a, S) + Cardinality(T)
  <2>1. IsFiniteSet(S)
    BY <1>1, FiniteParts
  <2> QED BY <1>4, <2>1, SumCounted
<1>6. Cardinality(T) = Cardinality(new)
  <2>1. IsFiniteSet(new) /\ IsFiniteSet({m}) /\ Cardinality({m}) = 1
    BY FiniteParts, FS_Subset, FS_Singleton
  <2>2. Cardinality(new) \in Nat /\ Cardinality(T) = 1 * Cardinality(new)
    BY <1>3, <2>1, FS_Product, FS_CardinalityType
  <2> QED BY <2>2
<1> QED BY <1>1, <1>2, <1>5, <1>6, <1>7 DEF InUse

(* What Used counts, of the entries now and of those afterwards.           *)
LEMMA UsedNow ==
  ASSUME NEW n \in Nodes
  PROVE  /\ heard \in [Nodes -> Heard] =>
              /\ Used(n) = InUse(heard[n], n)
              /\ \A p \in Nodes \X sfsb_channels : Copies(n, p[1], p[2]) = Blocks(heard[n], p)
         /\ heard' \in [Nodes -> Heard] => Used(n)' = InUse(heard'[n], n)
<1>1. ASSUME heard \in [Nodes -> Heard]
      PROVE  /\ Used(n) = InUse(heard[n], n)
             /\ \A p \in Nodes \X sfsb_channels : Copies(n, p[1], p[2]) = Blocks(heard[n], p)
  <2>1. ASSUME NEW p \in Nodes \X sfsb_channels PROVE Copies(n, p[1], p[2]) = Blocks(heard[n], p)
    <3>1. DOMAIN heard[n][p[1]][p[2]] = Units
      BY <1>1 DEF Heard
    <3> QED BY <3>1 DEF Copies, Blocks, SumFunction
  <2>2. Nbrs[n] \X sfsb_channels \subseteq Nodes \X sfsb_channels
    BY FiniteParts
  <2>3. [p \in Nbrs[n] \X sfsb_channels |-> Copies(n, p[1], p[2])] = Table(heard[n], n)
    BY <2>1, <2>2 DEF Table
  <2> QED BY <2>1, <2>3 DEF Used, InUse, SumFunction, Table
<1>2. ASSUME heard' \in [Nodes -> Heard] PROVE Used(n)' = InUse(heard'[n], n)
  <2>1. ASSUME NEW p \in Nodes \X sfsb_channels PROVE Copies(n, p[1], p[2])' = Blocks(heard'[n], p)
    <3>1. DOMAIN heard'[n][p[1]][p[2]] = Units
      BY <1>2 DEF Heard
    <3> QED BY <3>1 DEF Copies, Blocks, SumFunction
  <2>2. Nbrs[n] \X sfsb_channels \subseteq Nodes \X sfsb_channels
    BY FiniteParts
  <2>3. [p \in Nbrs[n] \X sfsb_channels |-> Copies(n, p[1], p[2])'] = Table(heard'[n], n)
    BY <2>1, <2>2 DEF Table
  <2> QED BY <2>3 DEF Used, InUse, SumFunction, Table
<1> QED BY <1>1, <1>2

(* No list outgrows the pool, and there are entries from neighbours only.  *)
PoolInv ==
  /\ TypeOK
  /\ \A n \in Nodes : Used(n) <= NbrPool
  /\ \A n, m \in Nodes : m \notin Nbrs[n] => \A c \in sfsb_channels, u \in Units : heard[n][m][c][u] = 0

(* The same of lists h, one node's after another.                          *)
InPool(h) ==
  /\ h \in [Nodes -> Heard]
  /\ \A n \in Nodes : InUse(h[n], n) <= NbrPool
  /\ \A n, m \in Nodes : m \notin Nbrs[n] => \A c \in sfsb_channels, u \in Units : h[n][m][c][u] = 0

(* In a list that fits into the pool, no number is larger than the pool.   *)
LEMMA WithinPool ==
  ASSUME NEW h, InPool(h)
  PROVE  h \in [Nodes -> [Nodes -> [sfsb_channels -> [Units -> 0 .. NbrPool]]]]
<1>1. ASSUME NEW n \in Nodes, NEW m \in Nodes, NEW c \in sfsb_channels, NEW u \in Units
      PROVE  h[n][m][c][u] \in 0 .. NbrPool
  <2>1. CASE m \notin Nbrs[n]
    BY <2>1, BlacklistAssumption DEF InPool
  <2>2. CASE m \in Nbrs[n]
    <3>1. PICK g \in Heard : g = h[n]
      BY DEF InPool
    <3>2. PICK p \in Nbrs[n] \X sfsb_channels : p[1] = m /\ p[2] = c
      <4>1. <<m, c>> \in Nbrs[n] \X sfsb_channels
        BY <2>2
      <4> QED BY <4>1
    <3>3. p \in Nodes \X sfsb_channels
      BY <3>2
    <3>4. g[m][c][u] \in Nat /\ g[m][c][u] <= Blocks(g, p) /\ Blocks(g, p) \in Nat
      BY <3>2, <3>3, BlocksType
    <3>5. Blocks(g, p) <= InUse(g, n) /\ InUse(g, n) \in Nat
      BY <3>2, TableType
    <3>6. InUse(g, n) <= NbrPool /\ NbrPool \in Nat
      BY <3>1, BlacklistAssumption DEF InPool
    <3> QED BY <3>1, <3>4, <3>5, <3>6
  <2> QED BY <2>1, <2>2
<1>2. h \in [Nodes -> [Nodes -> [sfsb_channels -> [Units -> Nat]]]]
  BY DEF InPool, Heard
<1> QED BY <1>1, <1>2

(* PoolInv is TypeOK and the types and the pool bound.                     *)
LEMMA PoolIs ==
  /\ PoolInv => RestTyped /\ InPool(heard)
  /\ RestTyped' /\ InPool(heard') => PoolInv'
<1>1. ASSUME PoolInv PROVE RestTyped /\ InPool(heard)
  <2>1. RestTyped /\ heard \in [Nodes -> Heard]
    BY <1>1, TypeParts DEF PoolInv
  <2>2. \A n \in Nodes : Used(n) = InUse(heard[n], n)
    BY <2>1, UsedNow
  <2> QED BY <1>1, <2>1, <2>2 DEF PoolInv, InPool
<1>2. ASSUME RestTyped', InPool(heard') PROVE PoolInv'
  <2>1. heard' \in [Nodes -> Heard] /\ heard' \in [Nodes -> [Nodes -> [sfsb_channels -> [Units -> 0 .. NbrPool]]]]
    <3>1. PICK h : h = heard'
      OBVIOUS
    <3>2. InPool(h)
      BY <1>2, <3>1
    <3> QED BY <3>1, <3>2, WithinPool DEF InPool
  <2>2. TypeOK'
    BY <1>2, <2>1 DEF TypeOK, RestTyped, Informed, Signal, Received
  <2>3. \A n \in Nodes : Used(n)' = InUse(heard'[n], n)
    BY <2>1, UsedNow
  <2>4. \A n \in Nodes : Used(n)' <= NbrPool
    BY <1>2, <2>3 DEF InPool
  <2> QED BY <1>2, <2>2, <2>4 DEF PoolInv, InPool
<1> QED BY <1>1, <1>2

(* Reading a SIGNAL allocates no more blocks than are left.                *)
LEMMA PoolInput ==
  ASSUME RestTyped, InPool(heard), NEW n \in Nodes, NEW m \in Nbrs[n], SignalReqInput(n, m)
  PROVE  InPool(heard')
<1>1. m \in Nodes /\ heard \in [Nodes -> Heard]
  BY FiniteParts DEF InPool
<1>2. PICK s \in Received : Unpack(n, m, s)
  <2>1. inbox[n][m] \in Seq(Received) /\ inbox[n][m] # <<>> /\ Unpack(n, m, Head(inbox[n][m]))
    BY <1>1 DEF SignalReqInput, RestTyped
  <2> QED BY <2>1, HeadTaken
<1>0. PICK new \in SUBSET s.chs : Unpacked(n, m, s, new)
  BY <1>1, <1>2, UnpackEffect
<1>3. /\ Cardinality(new) = Min({NbrPool - Used(n), Cardinality(s.chs \ (s.chs \cap Entries(n)))})
      /\ heard' \in [Nodes -> Heard]
      /\ \A c \in sfsb_channels, u \in Units :
           heard'[n][m][c][u] = IF c \in new /\ u = Left(s) THEN heard[n][m][c][u] + 1 ELSE heard[n][m][c][u]
      /\ \A k, l \in Nodes : k # n \/ l # m => heard'[k][l] = heard[k][l]
  BY <1>0 DEF Unpacked
<1>4. s.chs \in SUBSET sfsb_channels /\ Left(s) \in Units
  <2>1. s.age \in 0 .. MaxAge /\ s.chs \in SUBSET sfsb_channels
    BY DEF Received
  <2> QED BY <2>1, Constants DEF Left
<1>5. PICK g \in Heard, h \in Heard : g = heard[n] /\ h = heard'[n]
  BY <1>1, <1>3
<1>6. InUse(h, n) = InUse(g, n) + Cardinality(new)
  <2>1. PICK v \in Units : v = Left(s)
    BY <1>4
  <2>2. \A c \in sfsb_channels, u \in Units : h[m][c][u] = IF c \in new /\ u = v THEN g[m][c][u] + 1 ELSE g[m][c][u]
    BY <1>3, <1>5, <2>1
  <2>3. \A l \in Nodes : l # m => h[l] = g[l]
    BY <1>3, <1>5
  <2>4. new \in SUBSET sfsb_channels
    BY <1>3, <1>4
  <2> QED BY <2>2, <2>3, <2>4, OneMoreEach
<1>7. InUse(h, n) <= NbrPool
  <2>1. InUse(g, n) \in Nat /\ InUse(g, n) <= NbrPool /\ Used(n) = InUse(g, n)
    BY <1>1, <1>5, TableType, UsedNow DEF InPool
  <2>2. PICK k \in Nat : k = Cardinality(s.chs \ (s.chs \cap Entries(n)))
    <3>1. s.chs \ (s.chs \cap Entries(n)) \subseteq sfsb_channels
      BY <1>4
    <3> QED BY <3>1, FiniteParts, FS_Subset, FS_CardinalityType
  <2>3. PICK f \in Nat : f = NbrPool - Used(n)
    BY <2>1, BlacklistAssumption
  <2>4. Cardinality(new) = IF f <= k THEN f ELSE k
    <3>1. Cardinality(new) = Min({f, k})
      BY <1>3, <2>2, <2>3, Zenon
    <3>2. f \in Int /\ k \in Int
      OBVIOUS
    <3> QED BY <3>1, <3>2, MinOfTwo
  <2>5. NbrPool \in Nat
    BY BlacklistAssumption
  <2> QED BY <1>6, <2>1, <2>3, <2>4, <2>5
<1>8. ASSUME NEW k \in Nodes PROVE InUse(heard'[k], k) <= NbrPool
  <2>1. CASE k = n
    BY <1>5, <1>7, <2>1
  <2>2. CASE k # n
    <3>1. heard'[k] \in Heard /\ heard[k] \in Heard /\ \A l \in Nodes : heard'[k][l] = heard[k][l]
      BY <1>1, <1>3, <2>2
    <3>2. heard'[k] = heard[k]
      BY <3>1 DEF Heard
    <3> QED BY <3>2 DEF InPool
  <2> QED BY <2>1, <2>2
<1>9. \A k, l \in Nodes : l \notin Nbrs[k] => \A c \in sfsb_channels, u \in Units : heard'[k][l][c][u] = 0
  <2>1. \A k, l \in Nodes : l \notin Nbrs[k] => k # n \/ l # m
    OBVIOUS
  <2> QED BY <1>3, <2>1 DEF InPool
<1> QED BY <1>3, <1>8, <1>9 DEF InPool

(* An entry that expires returns its block.                                *)
LEMMA PoolExpire ==
  ASSUME InPool(heard), NEW n \in Nodes, NEW m \in Nodes, NEW c \in sfsb_channels, ExpireHeard(n, m, c)
  PROVE  InPool(heard')
<1>1. heard \in [Nodes -> Heard]
  BY DEF InPool
<1>2. /\ heard' \in [Nodes -> Heard]
      /\ \A k, l \in Nodes, d \in sfsb_channels, u \in Units : heard'[k][l][d][u] <= heard[k][l][d][u]
  BY <1>1, ExpireHeardEffect
<1>3. ASSUME NEW k \in Nodes PROVE InUse(heard'[k], k) <= NbrPool
  <2>1. PICK g \in Heard, h \in Heard : g = heard[k] /\ h = heard'[k]
    BY <1>1, <1>2
  <2>2. ASSUME NEW p \in Nbrs[k] \X sfsb_channels PROVE Blocks(h, p) <= Blocks(g, p)
    <3>1. p \in Nodes \X sfsb_channels
      BY FiniteParts
    <3>2. \A u \in Units : h[p[1]][p[2]][u] <= g[p[1]][p[2]][u]
      BY <1>2, <2>1, <3>1
    <3> QED BY <3>1, <3>2, NoMoreBlocks
  <2>3. InUse(h, k) <= InUse(g, k) /\ InUse(h, k) \in Nat /\ InUse(g, k) \in Nat
    BY <2>2, NoMoreInUse, TableType
  <2>4. InUse(g, k) <= NbrPool /\ NbrPool \in Nat
    BY <2>1, BlacklistAssumption DEF InPool
  <2> QED BY <2>1, <2>3, <2>4
<1>4. ASSUME NEW k \in Nodes, NEW l \in Nodes, l \notin Nbrs[k], NEW d \in sfsb_channels, NEW u \in Units
      PROVE  heard'[k][l][d][u] = 0
  <2>1. heard'[k][l][d][u] \in Nat
    BY <1>2 DEF Heard
  <2>2. heard[k][l][d][u] = 0 /\ heard'[k][l][d][u] <= heard[k][l][d][u]
    BY <1>2, <1>4 DEF InPool
  <2> QED BY <2>1, <2>2
<1> QED BY <1>2, <1>3, <1>4 DEF InPool

(* A unit of time allocates nothing.                                       *)
LEMMA PoolLater ==
  ASSUME RestTyped, InPool(heard), Later
  PROVE  InPool(heard')
<1>1. heard \in [Nodes -> Heard]
  BY DEF InPool
<1>2. /\ heard' \in [Nodes -> Heard]
      /\ \A n, m \in Nodes, c \in sfsb_channels :
           /\ heard[n][m][c][0] = 0
           /\ \A u \in Units : /\ u # Lifetime => u + 1 \in Units
                               /\ heard'[n][m][c][u] = IF u = Lifetime THEN 0 ELSE heard[n][m][c][u + 1]
  BY <1>1, LaterEffect
<1>3. ASSUME NEW k \in Nodes PROVE InUse(heard'[k], k) <= NbrPool
  <2>1. PICK g \in Heard, h \in Heard : g = heard[k] /\ h = heard'[k]
    BY <1>1, <1>2
  <2>2. ASSUME NEW p \in Nbrs[k] \X sfsb_channels PROVE Blocks(h, p) <= Blocks(g, p)
    <3>1. p \in Nodes \X sfsb_channels
      BY FiniteParts
    <3>2. PICK a \in [Units -> Nat], b \in [Units -> Nat] : a = g[p[1]][p[2]] /\ b = h[p[1]][p[2]]
      BY <3>1, BlocksType
    <3>3. a[0] = 0 /\ \A u \in Units : b[u] = IF u = Lifetime THEN 0 ELSE a[u + 1]
      BY <1>2, <2>1, <3>1, <3>2
    <3>4. SumFunctionOnSet(b, Units) = SumFunctionOnSet(a, Units)
      BY <3>3, Constants, SumShifted
    <3>5. Blocks(h, p) = Blocks(g, p) /\ Blocks(g, p) \in Nat
      BY <3>1, <3>2, <3>4, BlocksType DEF Blocks
    <3> QED BY <3>5
  <2>3. InUse(h, k) <= InUse(g, k) /\ InUse(h, k) \in Nat /\ InUse(g, k) \in Nat
    BY <2>2, NoMoreInUse, TableType
  <2>4. InUse(g, k) <= NbrPool /\ NbrPool \in Nat
    BY <2>1, BlacklistAssumption DEF InPool
  <2> QED BY <2>1, <2>3, <2>4
<1>4. ASSUME NEW k \in Nodes, NEW l \in Nodes, l \notin Nbrs[k], NEW d \in sfsb_channels, NEW u \in Units
      PROVE  heard'[k][l][d][u] = 0
  <2>1. heard'[k][l][d][u] = IF u = Lifetime THEN 0 ELSE heard[k][l][d][u + 1]
    BY <1>2
  <2>2. u # Lifetime => u + 1 \in Units
    BY <1>2
  <2>3. u # Lifetime => heard[k][l][d][u + 1] = 0
    BY <1>4, <2>2 DEF InPool
  <2> QED BY <2>1, <2>3
<1> QED BY <1>2, <1>3, <1>4 DEF InPool

(* Every step keeps the types and the pool bound.                          *)
LEMMA PoolNext == PoolInv /\ [Next]_vars => PoolInv'
<1> SUFFICES ASSUME PoolInv, [Next]_vars PROVE PoolInv'
  OBVIOUS
<1>1. RestTyped /\ InPool(heard) /\ heard \in [Nodes -> Heard]
  BY PoolIs DEF InPool
<1>2. RestTyped'
  BY <1>1, RestKept
<1>3. CASE UNCHANGED heard
  <2>1. InPool(heard')
    BY <1>1, <1>3
  <2> QED BY <1>2, <2>1, PoolIs
<1>4. ASSUME NEW p \in Pairs, SignalReqInput(p[1], p[2]) PROVE PoolInv'
  <2>1. p[1] \in Nodes /\ p[2] \in Nbrs[p[1]]
    BY Constants
  <2> QED BY <1>1, <1>2, <1>4, <2>1, PoolInput, PoolIs
<1>5. ASSUME NEW p \in Pairs, NEW c \in sfsb_channels, ExpireHeard(p[1], p[2], c) PROVE PoolInv'
  <2>1. p[1] \in Nodes /\ p[2] \in Nodes
    BY Constants
  <2> QED BY <1>1, <1>2, <1>5, <2>1, PoolExpire, PoolIs
<1>6. CASE Later
  BY <1>1, <1>2, <1>6, PoolLater, PoolIs
<1>7. ASSUME NEW p \in Pairs, \/ Arrive(p[1], p[2]) \/ Acked(p[1], p[2]) \/ NotAcked(p[1], p[2])
                              \/ Refuse(p[1], p[2]) \/ TransTimeout(p[1], p[2]) \/ Negotiated(p[1], p[2])
      PROVE  UNCHANGED heard
  BY <1>7 DEF Arrive, Acked, NotAcked, Refuse, TransTimeout, Negotiated, lists
<1>8. ASSUME NEW n \in Nodes, NEW tell \in SUBSET Nbrs[n], Round(n, tell) \/ Distribute(n, tell) PROVE UNCHANGED heard
  BY <1>8 DEF Round, Distribute, lists
<1>9. ASSUME NEW n \in Nodes, NEW c \in sfsb_channels, Expire(n, c) PROVE UNCHANGED heard
  BY <1>9 DEF Expire
<1>10. CASE Stop \/ Tick \/ UNCHANGED vars
  <2>1. UNCHANGED heard
    BY <1>10 DEF Stop, Tick, vars, lists
  <2> QED BY <1>3, <2>1
<1> QED BY <1>3, <1>4, <1>5, <1>6, <1>7, <1>8, <1>9, <1>10 DEF Next

(* They hold of the initial states, that have no entries.                  *)
LEMMA InitPool == Init => PoolInv
<1> SUFFICES ASSUME Init PROVE PoolInv
  OBVIOUS
<1>1. RestTyped
  <2>1. Absent \in Units \cup {Absent} /\ <<>> \in Seq(Signal) /\ <<>> \in Seq(Received) /\ Interval \in 0 .. Interval
    BY EmptySeq, BlacklistAssumption
  <2> QED BY <2>1 DEF Init, RestTyped, Informed
<1>2. heard \in [Nodes -> Heard] /\ \A n, m \in Nodes, c \in sfsb_channels, u \in Units : heard[n][m][c][u] = 0
  BY DEF Init, Heard
<1>3. ASSUME NEW n \in Nodes PROVE Used(n) <= NbrPool
  <2>1. PICK g \in Heard : g = heard[n]
    BY <1>2
  <2>2. PICK S : S = Nbrs[n] \X sfsb_channels
    OBVIOUS
  <2>3. ASSUME NEW p \in S PROVE Blocks(g, p) = 0
    <3>1. p \in Nodes \X sfsb_channels
      BY <2>2, FiniteParts
    <3>2. PICK f \in [Units -> Nat] : f = g[p[1]][p[2]] /\ \A u \in Units : f[u] = 0
      BY <1>2, <2>1, <3>1, BlocksType
    <3> QED BY <3>2, FiniteParts, SumZero DEF Blocks
  <2>4. PICK f \in [S -> Nat] : f = Table(g, n) /\ \A p \in S : f[p] = 0
    <3>1. /\ Table(g, n) \in [Nbrs[n] \X sfsb_channels -> Nat]
          /\ \A p \in Nbrs[n] \X sfsb_channels : Table(g, n)[p] = Blocks(g, p)
      BY TableType
    <3> QED BY <2>2, <2>3, <3>1
  <2>5. SumFunctionOnSet(f, S) = 0
    <3>1. IsFiniteSet(S)
      BY <2>2, FiniteParts
    <3> QED BY <2>4, <3>1, SumZero
  <2>6. Used(n) = InUse(g, n)
    BY <1>2, <2>1, UsedNow
  <2> QED BY <2>2, <2>4, <2>5, <2>6, BlacklistAssumption DEF InUse
<1>4. heard \in [Nodes -> [Nodes -> [sfsb_channels -> [Units -> 0 .. NbrPool]]]]
  <2>1. 0 \in 0 .. NbrPool
    BY BlacklistAssumption
  <2> QED BY <2>1 DEF Init
<1>5. TypeOK
  BY <1>1, <1>4, TypeParts
<1> QED BY <1>2, <1>3, <1>5 DEF PoolInv

(* Blacklist.TypeOK is a theorem: whatever is told and whenever it is      *)
(* read, entries, queues and inboxes are as their types say, and the       *)
(* entries a node holds of its neighbours never need more blocks than      *)
(* mem_nbr_bl_ent has, although sfsb_bl_unpack adds one for each channel   *)
(* of each SIGNAL (memb_alloc in sfsb_bl_generic_add_update).              *)
THEOREM TypeCorrect == Spec => []TypeOK
<1>1. PoolInv => TypeOK
  BY DEF PoolInv
<1> QED BY <1>1, InitPool, PoolNext, PTL DEF Spec

-----------------------------------------------------------------------------
(* One SIGNAL a round                                                      *)

(* Entries and SIGNALs by age, the age of an entry that of its SIGNAL:     *)
(* those in a list h, in a sequence s, those of a queue q yet to arrive.   *)
AgesIn(h) == {a \in 0 .. Lifetime : \E c \in sfsb_channels : h[c][Lifetime - a] > 0}
AgesOf(s) == {s[i].age : i \in DOMAIN s}
AgesComing(q) == {q[i].age : i \in {j \in DOMAIN q : ~q[j].there}}

(* All of A are an interval younger than all of B.                         *)
Younger(A, B) == \A a \in A, b \in B : a + Interval <= b
Decreasing(s) == \A i, j \in DOMAIN s : i < j => s[j].age + Interval <= s[i].age

(* What a neighbour has sent is an interval apart: the entries h it left,  *)
(* the SIGNALs i to be read and those q on their way.                      *)
Spaced(h, i, q) ==
  /\ \A c \in sfsb_channels, u \in Units : h[c][u] <= 1
  /\ \A a, b \in AgesIn(h) : a < b => a + Interval <= b
  /\ Decreasing(i) /\ Decreasing(q)
  /\ \A k \in DOMAIN q : q[k].there => k = 1
  /\ Younger(AgesOf(i), AgesIn(h))
  /\ Younger(AgesComing(q), AgesOf(i)) /\ Younger(AgesComing(q), AgesIn(h))

(* None of it is younger than w.                                           *)
NoneSince(h, i, q, w) == \A a \in AgesIn(h) \cup AgesOf(i) \cup AgesOf(q) : w <= a

(* One SIGNAL a round to each neighbour: from the round to the end of the  *)
(* distribution its transaction is open, or it has not been sent.          *)
OneARound ==
  \A n, m \in Nodes :
    /\ Spaced(heard[n][m], inbox[n][m], queue[m][n])
    /\ NoneSince(heard[n][m], inbox[n][m], queue[m][n], wait[m])
    /\ m \in posted => /\ wait[m] = 0
                       /\ ~open[m][n] => NoneSince(heard[n][m], inbox[n][m], queue[m][n], Interval)


-----------------------------------------------------------------------------
Of == [sfsb_channels -> [Units -> Nat]]

(* Ages are natural numbers, of a SIGNAL at most MaxAge.                   *)
LEMMA Ages ==
  ASSUME NEW h \in Of, NEW i \in Seq(Received), NEW q \in Seq(Signal)
  PROVE  /\ AgesIn(h) \subseteq Nat /\ AgesOf(i) \subseteq Nat /\ AgesOf(q) \subseteq Nat /\ AgesComing(q) \subseteq AgesOf(q)
         /\ \A x \in DOMAIN i : i[x].age \in AgesOf(i) /\ i[x].age \in 0 .. MaxAge
         /\ \A x \in DOMAIN q : /\ q[x].age \in AgesOf(q) /\ q[x].age \in 0 .. MaxAge /\ q[x].there \in BOOLEAN
                                /\ ~q[x].there => q[x].age \in AgesComing(q)
<1>1. \A x \in DOMAIN i : i[x].age \in 0 .. MaxAge
  <2>1. \A x \in DOMAIN i : i[x] \in Received
    BY Places
  <2> QED BY <2>1 DEF Received
<1>2. \A x \in DOMAIN q : q[x].age \in 0 .. MaxAge /\ q[x].there \in BOOLEAN
  <2>1. \A x \in DOMAIN q : q[x] \in Signal
    BY Places
  <2> QED BY <2>1 DEF Signal
<1>3. 0 .. MaxAge \subseteq Nat /\ 0 .. Lifetime \subseteq Nat
  OBVIOUS
<1> HIDE DEF Received, Signal
<1>4. AgesIn(h) \subseteq Nat /\ AgesOf(i) \subseteq Nat /\ AgesOf(q) \subseteq Nat /\ AgesComing(q) \subseteq AgesOf(q)
  BY <1>1, <1>2, <1>3 DEF AgesIn, AgesOf, AgesComing
<1>5. \A x \in DOMAIN i : i[x].age \in AgesOf(i)
  BY DEF AgesOf
<1>6. \A x \in DOMAIN q : q[x].age \in AgesOf(q) /\ (~q[x].there => q[x].age \in AgesComing(q))
  BY DEF AgesOf, AgesComing
<1> QED BY <1>1, <1>2, <1>4, <1>5, <1>6

(* s is t, or t without its first.                                         *)
Within(s, t) == \E k \in 0 .. 1 : \A x \in DOMAIN s : x + k \in DOMAIN t /\ s[x] = t[x + k]

(* The tail of a sequence holds nothing else, in the same order.           *)
LEMMA WithinTail ==
  ASSUME NEW S, NEW s \in Seq(S)
  PROVE  Within(s, s) /\ (s # <<>> => Within(Tail(s), s))
<1>1. DOMAIN s = 1 .. Len(s) /\ Len(s) \in Nat
  BY Places
<1>2. Within(s, s)
  <2>1. 0 \in 0 .. 1 /\ \A x \in DOMAIN s : x + 0 = x
    BY <1>1
  <2> QED BY <2>1 DEF Within
<1>3. ASSUME s # <<>> PROVE Within(Tail(s), s)
  <2>1. 1 \in 0 .. 1 /\ \A x \in DOMAIN Tail(s) : x + 1 \in DOMAIN s /\ Tail(s)[x] = s[x + 1]
    BY <1>3, HeadTaken
  <2> QED BY <2>1 DEF Within
<1> QED BY <1>2, <1>3

(* With fewer entries and SIGNALs, those that remain are as far apart.     *)
LEMMA FewerSpaced ==
  ASSUME NEW h \in Of, NEW i \in Seq(Received), NEW q \in Seq(Signal), Spaced(h, i, q),
         NEW e \in Of, NEW j \in Seq(Received), NEW p \in Seq(Signal),
         \A c \in sfsb_channels, u \in Units : e[c][u] <= h[c][u],
         Within(j, i), Within(p, q)
  PROVE  /\ Spaced(e, j, p)
         /\ \A w : NoneSince(h, i, q, w) => NoneSince(e, j, p, w)
<1>1. PICK k \in 0 .. 1 : \A x \in DOMAIN j : x + k \in DOMAIN i /\ j[x] = i[x + k]
  BY DEF Within
<1>2. PICK l \in 0 .. 1 : \A x \in DOMAIN p : x + l \in DOMAIN q /\ p[x] = q[x + l]
  BY DEF Within
<1>3. DOMAIN j \subseteq Nat \ {0} /\ DOMAIN p \subseteq Nat \ {0} /\ DOMAIN i \subseteq Nat /\ DOMAIN q \subseteq Nat
  BY Places
<1>4. AgesIn(e) \subseteq AgesIn(h)
  <2>1. \A c \in sfsb_channels, u \in Units : e[c][u] \in Nat /\ h[c][u] \in Nat
    BY DEF Of
  <2>2. \A a \in 0 .. Lifetime : Lifetime - a \in Units
    BY Constants
  <2>3. \A c \in sfsb_channels, u \in Units : e[c][u] > 0 => h[c][u] > 0
    BY <2>1
  <2> QED BY <2>2, <2>3 DEF AgesIn
<1>5. AgesOf(j) \subseteq AgesOf(i)
  BY <1>1 DEF AgesOf
<1>6. AgesOf(p) \subseteq AgesOf(q) /\ AgesComing(p) \subseteq AgesComing(q)
  BY <1>2 DEF AgesOf, AgesComing
<1>7. \A c \in sfsb_channels, u \in Units : e[c][u] <= 1
  <2>1. \A c \in sfsb_channels, u \in Units : e[c][u] \in Nat /\ h[c][u] \in Nat /\ h[c][u] <= 1
    BY DEF Of, Spaced
  <2> QED BY <2>1
<1>8. Decreasing(j)
  <2>1. ASSUME NEW x \in DOMAIN j, NEW y \in DOMAIN j, x < y PROVE j[y].age + Interval <= j[x].age
    <3>1. PICK v \in DOMAIN i, w \in DOMAIN i : v = x + k /\ w = y + k /\ j[x] = i[v] /\ j[y] = i[w]
      BY <1>1
    <3>2. v < w
      BY <1>3, <2>1, <3>1
    <3> QED BY <3>1, <3>2 DEF Spaced, Decreasing
  <2> QED BY <2>1 DEF Decreasing
<1>9. Decreasing(p)
  <2>1. ASSUME NEW x \in DOMAIN p, NEW y \in DOMAIN p, x < y PROVE p[y].age + Interval <= p[x].age
    <3>1. PICK v \in DOMAIN q, w \in DOMAIN q : v = x + l /\ w = y + l /\ p[x] = q[v] /\ p[y] = q[w]
      BY <1>2
    <3>2. v < w
      BY <1>3, <2>1, <3>1
    <3> QED BY <3>1, <3>2 DEF Spaced, Decreasing
  <2> QED BY <2>1 DEF Decreasing
<1>10. ASSUME NEW x \in DOMAIN p, p[x].there PROVE x = 1
  <2>1. PICK v \in DOMAIN q : v = x + l /\ p[x] = q[v]
    BY <1>2
  <2>2. v = 1
    BY <1>10, <2>1 DEF Spaced
  <2> QED BY <1>3, <2>1, <2>2
<1>11. /\ \A a, b \in AgesIn(e) : a < b => a + Interval <= b
       /\ Younger(AgesOf(j), AgesIn(e)) /\ Younger(AgesComing(p), AgesOf(j)) /\ Younger(AgesComing(p), AgesIn(e))
  BY <1>4, <1>5, <1>6 DEF Spaced, Younger
<1>12. Spaced(e, j, p)
  BY <1>7, <1>8, <1>9, <1>10, <1>11 DEF Spaced
<1>13. \A w : NoneSince(h, i, q, w) => NoneSince(e, j, p, w)
  BY <1>4, <1>5, <1>6 DEF NoneSince
<1> QED BY <1>12, <1>13

(* A SIGNAL sent when none is younger than an interval.                    *)
LEMMA SentSpaced ==
  ASSUME NEW h \in Of, NEW i \in Seq(Received), NEW q \in Seq(Signal), Spaced(h, i, q),
         NoneSince(h, i, q, Interval),
         NEW s \in Signal, s.age = 0, ~s.there, NEW p, p = Append(q, s)
  PROVE  Spaced(h, i, p)
<1>1. /\ p \in Seq(Signal) /\ Len(q) \in Nat /\ DOMAIN q = 1 .. Len(q) /\ DOMAIN p = 1 .. Len(q) + 1
      /\ \A x \in DOMAIN q : p[x] = q[x]
      /\ p[Len(q) + 1] = s
  BY Appended, Places
<1>2. PICK z \in Nat : z = Len(q) + 1
  BY <1>1
<1>3. /\ z \in DOMAIN p /\ p[z].age = 0 /\ ~p[z].there
      /\ \A x \in DOMAIN p : x = z \/ (x \in DOMAIN q /\ x < z /\ p[x] = q[x])
  BY <1>1, <1>2
<1>4. AgesComing(p) \subseteq AgesComing(q) \cup {0}
  BY <1>3 DEF AgesComing
<1>5. Interval \in Nat /\ AgesIn(h) \subseteq Nat /\ AgesOf(i) \subseteq Nat /\ AgesOf(q) \subseteq Nat
  BY Ages, BlacklistAssumption
<1>6. \A a \in AgesIn(h) \cup AgesOf(i) \cup AgesOf(q) : Interval <= a
  BY DEF NoneSince
<1>7. Decreasing(p)
  <2>1. ASSUME NEW x \in DOMAIN p, NEW y \in DOMAIN p, x < y PROVE p[y].age + Interval <= p[x].age
    <3>1. x \in DOMAIN q /\ p[x] = q[x] /\ q[x].age \in AgesOf(q)
      <4>1. x # z
        BY <1>1, <1>2, <2>1
      <4> QED BY <1>3, <4>1, Ages
    <3>2. CASE y = z
      <4>1. Interval <= q[x].age
        BY <1>6, <3>1
      <4> QED BY <1>3, <1>5, <3>1, <3>2, <4>1
    <3>3. CASE y # z
      <4>1. y \in DOMAIN q /\ p[y] = q[y]
        BY <1>3, <3>3
      <4> QED BY <2>1, <3>1, <4>1 DEF Spaced, Decreasing
    <3> QED BY <3>2, <3>3
  <2> QED BY <2>1 DEF Decreasing
<1>8. \A x \in DOMAIN p : p[x].there => x = 1
  BY <1>3 DEF Spaced
<1>9. Younger(AgesComing(p), AgesOf(i)) /\ Younger(AgesComing(p), AgesIn(h))
  <2>1. \A b \in AgesOf(i) \cup AgesIn(h) : 0 + Interval <= b
    BY <1>5, <1>6
  <2>2. \A a \in AgesComing(q), b \in AgesOf(i) \cup AgesIn(h) : a + Interval <= b
    BY DEF Spaced, Younger
  <2> QED BY <1>4, <2>1, <2>2 DEF Younger
<1> QED BY <1>7, <1>8, <1>9 DEF Spaced

(* A SIGNAL that gets there.                                               *)
LEMMA ArrivedSpaced ==
  ASSUME NEW h \in Of, NEW i \in Seq(Received), NEW q \in Seq(Signal), Spaced(h, i, q),
         q # <<>>, ~q[1].there, NEW r \in Received, r.age = q[1].age, NEW j, j = Append(i, r),
         NEW p \in Seq(Signal), DOMAIN p = DOMAIN q, p[1] = [q[1] EXCEPT !.there = TRUE],
         \A x \in DOMAIN q : x # 1 => p[x] = q[x]
  PROVE  /\ Spaced(h, j, p)
         /\ \A w : NoneSince(h, i, q, w) => NoneSince(h, j, p, w)
<1>1. /\ j \in Seq(Received) /\ Len(i) \in Nat /\ DOMAIN i = 1 .. Len(i) /\ DOMAIN j = 1 .. Len(i) + 1
      /\ \A x \in DOMAIN i : j[x] = i[x]
      /\ j[Len(i) + 1] = r
  BY Appended, Places
<1>2. PICK z \in Nat : z = Len(i) + 1
  BY <1>1
<1>3. /\ z \in DOMAIN j /\ j[z] = r
      /\ \A x \in DOMAIN j : x = z \/ (x \in DOMAIN i /\ x < z /\ j[x] = i[x])
  BY <1>1, <1>2
<1>4. 1 \in DOMAIN q /\ q[1] \in Signal /\ DOMAIN q \subseteq Nat \ {0}
  BY HeadTaken, Places
<1>5. q[1].age \in AgesComing(q) /\ q[1].age \in AgesOf(q)
  BY <1>4, Ages
<1>6. p[1].age = q[1].age /\ p[1].there
  BY <1>4 DEF Signal
<1>7. \A x \in DOMAIN q : p[x].age = q[x].age
  BY <1>6
<1>8. AgesOf(j) \subseteq AgesOf(i) \cup {q[1].age} /\ AgesOf(p) \subseteq AgesOf(q)
  <2>1. ASSUME NEW x \in DOMAIN j PROVE j[x].age \in AgesOf(i) \cup {q[1].age}
    <3>1. CASE x = z
      BY <1>3, <3>1
    <3>2. CASE x \in DOMAIN i /\ j[x] = i[x]
      BY <3>2 DEF AgesOf
    <3> QED BY <1>3, <3>1, <3>2
  <2>2. AgesOf(j) \subseteq AgesOf(i) \cup {q[1].age}
    BY <2>1 DEF AgesOf
  <2>3. AgesOf(p) \subseteq AgesOf(q)
    BY <1>7 DEF AgesOf
  <2> QED BY <2>2, <2>3
<1>9. ASSUME NEW a \in AgesComing(p)
      PROVE  a \in AgesComing(q) /\ a + Interval <= q[1].age
  <2>1. PICK x \in DOMAIN q : ~p[x].there /\ a = p[x].age
    BY DEF AgesComing
  <2>2. x # 1 /\ p[x] = q[x] /\ 1 < x
    <3>1. x # 1
      BY <1>6, <2>1
    <3>2. x \in Nat \ {0}
      BY <1>4
    <3> QED BY <3>1, <3>2
  <2>3. q[x].age + Interval <= q[1].age
    BY <1>4, <2>2 DEF Spaced, Decreasing
  <2>4. a \in AgesComing(q)
    BY <2>1, <2>2 DEF AgesComing
  <2> QED BY <2>1, <2>2, <2>3, <2>4
<1>10. Decreasing(j)
  <2>1. ASSUME NEW x \in DOMAIN j, NEW y \in DOMAIN j, x < y PROVE j[y].age + Interval <= j[x].age
    <3>1. x \in DOMAIN i /\ j[x] = i[x] /\ i[x].age \in AgesOf(i)
      <4>1. x # z
        BY <1>1, <1>2, <2>1
      <4> QED BY <1>3, <4>1, Ages
    <3>2. CASE y = z
      <4>1. q[1].age + Interval <= i[x].age
        BY <1>5, <3>1 DEF Spaced, Younger
      <4> QED BY <1>3, <3>1, <3>2, <4>1
    <3>3. CASE y # z
      <4>1. y \in DOMAIN i /\ j[y] = i[y]
        BY <1>3, <3>3
      <4> QED BY <2>1, <3>1, <4>1 DEF Spaced, Decreasing
    <3> QED BY <3>2, <3>3
  <2> QED BY <2>1 DEF Decreasing
<1>11. Decreasing(p)
  BY <1>7 DEF Spaced, Decreasing
<1>12. \A x \in DOMAIN p : p[x].there => x = 1
  BY DEF Spaced
<1>13. Younger(AgesOf(j), AgesIn(h))
  BY <1>5, <1>8 DEF Spaced, Younger
<1>14. Younger(AgesComing(p), AgesOf(j))
  BY <1>8, <1>9 DEF Spaced, Younger
<1>15. Younger(AgesComing(p), AgesIn(h))
  BY <1>9 DEF Spaced, Younger
<1>16. Spaced(h, j, p)
  BY <1>10, <1>11, <1>12, <1>13, <1>14, <1>15 DEF Spaced
<1>17. \A w : NoneSince(h, i, q, w) => NoneSince(h, j, p, w)
  BY <1>5, <1>8 DEF NoneSince
<1> QED BY <1>16, <1>17

(* A SIGNAL that is read: its entries are as old as it is.                 *)
(* The first SIGNAL of i is read: the channels of new are among the entries *)
(* e afterwards, j is to be read.                                          *)
ReadAs(h, i, e, j, new) ==
  /\ i # <<>> /\ j = Tail(i) /\ new \subseteq sfsb_channels
  /\ \A c \in sfsb_channels, u \in Units :
       e[c][u] = IF c \in new /\ u = Lifetime - i[1].age THEN h[c][u] + 1 ELSE h[c][u]

(* Reading the first SIGNAL moves its age from the inbox to the entries.   *)
LEMMA ReadSpaced ==
  ASSUME NEW h \in Of, NEW i \in Seq(Received), NEW q \in Seq(Signal), Spaced(h, i, q),
         NEW e \in Of, NEW j, NEW new, ReadAs(h, i, e, j, new)
  PROVE  /\ Spaced(e, j, q)
         /\ \A w : NoneSince(h, i, q, w) => NoneSince(e, j, q, w)
<1>0. /\ i # <<>> /\ j = Tail(i) /\ new \subseteq sfsb_channels
      /\ \A c \in sfsb_channels, u \in Units :
           e[c][u] = IF c \in new /\ u = Lifetime - i[1].age THEN h[c][u] + 1 ELSE h[c][u]
  BY DEF ReadAs
<1>1. /\ j \in Seq(Received) /\ DOMAIN j \subseteq Nat \ {0} /\ DOMAIN i \subseteq Nat /\ 1 \in DOMAIN i
      /\ \A x \in DOMAIN j : x + 1 \in DOMAIN i /\ j[x] = i[x + 1]
  BY <1>0, HeadTaken, Places
<1>2. PICK a \in Nat : a = i[1].age /\ a \in AgesOf(i) /\ a \in 0 .. Lifetime /\ Lifetime - a \in Units
  BY <1>1, Ages, Constants
<1>3. \A c \in sfsb_channels, u \in Units : h[c][u] \in Nat /\ h[c][u] <= 1
  BY DEF Of, Spaced
<1>4. Interval \in Nat \ {0} /\ Lifetime \in Nat
  BY BlacklistAssumption
<1>5. \A b \in AgesIn(h) : a + Interval <= b
  BY <1>2 DEF Spaced, Younger
<1>6. ASSUME NEW c \in sfsb_channels PROVE h[c][Lifetime - a] = 0
  <2>1. a \notin AgesIn(h)
    BY <1>4, <1>5
  <2>2. ~(h[c][Lifetime - a] > 0)
    BY <1>2, <2>1 DEF AgesIn
  <2> QED BY <1>2, <1>3, <2>2
<1>7. \A c \in sfsb_channels, u \in Units : e[c][u] <= 1
  BY <1>0, <1>2, <1>3, <1>6
<1>8. AgesIn(e) \subseteq AgesIn(h) \cup {a}
  <2> SUFFICES ASSUME NEW b \in 0 .. Lifetime, NEW c \in sfsb_channels, e[c][Lifetime - b] > 0, b # a
               PROVE  b \in AgesIn(h)
    BY DEF AgesIn
  <2>1. Lifetime - b \in Units /\ Lifetime - b # Lifetime - a
    BY <1>2, <1>4, Constants
  <2>2. e[c][Lifetime - b] = h[c][Lifetime - b]
    BY <1>0, <1>2, <2>1
  <2> QED BY <2>2 DEF AgesIn
<1>9. ASSUME NEW b \in AgesOf(j) PROVE b \in AgesOf(i) /\ b + Interval <= a
  <2>1. PICK x \in DOMAIN j : b = j[x].age
    BY DEF AgesOf
  <2>2. PICK y \in DOMAIN i : y = x + 1 /\ j[x] = i[y]
    BY <1>1
  <2>3. 1 < y
    BY <1>1, <2>2
  <2>4. i[y].age + Interval <= i[1].age
    BY <1>1, <2>3 DEF Spaced, Decreasing
  <2>5. i[y].age \in AgesOf(i)
    BY Ages
  <2> QED BY <1>2, <2>1, <2>2, <2>4, <2>5
<1>10. Decreasing(j)
  <2>1. ASSUME NEW x \in DOMAIN j, NEW y \in DOMAIN j, x < y PROVE j[y].age + Interval <= j[x].age
    <3>1. PICK v \in DOMAIN i, w \in DOMAIN i : v = x + 1 /\ w = y + 1 /\ j[x] = i[v] /\ j[y] = i[w]
      BY <1>1
    <3>2. v < w
      <4>1. x \in Nat /\ y \in Nat
        BY <1>1
      <4> QED BY <2>1, <3>1, <4>1
    <3> QED BY <3>1, <3>2 DEF Spaced, Decreasing
  <2> QED BY <2>1 DEF Decreasing
<1>11. \A b, d \in AgesIn(e) : b < d => b + Interval <= d
  <2> SUFFICES ASSUME NEW b \in AgesIn(e), NEW d \in AgesIn(e), b < d PROVE b + Interval <= d
    OBVIOUS
  <2>1. (b \in AgesIn(h) \/ b = a) /\ (d \in AgesIn(h) \/ d = a)
    BY <1>8
  <2>2. CASE b \in AgesIn(h) /\ d \in AgesIn(h)
    BY <2>2 DEF Spaced
  <2>3. CASE b = a /\ d \in AgesIn(h)
    BY <1>5, <2>3
  <2>4. CASE b \in AgesIn(h) /\ d = a
    <3>1. a + Interval <= b /\ b \in Nat
      BY <1>5, <2>4, Ages
    <3> QED BY <1>4, <2>4, <3>1
  <2>5. CASE b = a /\ d = a
    BY <2>5
  <2> QED BY <2>1, <2>2, <2>3, <2>4, <2>5
<1>12. Younger(AgesOf(j), AgesIn(e))
  BY <1>8, <1>9 DEF Spaced, Younger
<1>13. Younger(AgesComing(q), AgesOf(j)) /\ Younger(AgesComing(q), AgesIn(e))
  BY <1>2, <1>8, <1>9 DEF Spaced, Younger
<1>14. Spaced(e, j, q)
  BY <1>7, <1>10, <1>11, <1>12, <1>13 DEF Spaced
<1>15. \A w : NoneSince(h, i, q, w) => NoneSince(e, j, q, w)
  BY <1>2, <1>8, <1>9 DEF NoneSince
<1> QED BY <1>14, <1>15

(* All of it a unit older, once all SIGNALs are read.                      *)
LEMMA OlderSpaced ==
  ASSUME NEW h \in Of, NEW q \in Seq(Signal), NEW i \in Seq(Received), i = <<>>, Spaced(h, i, q),
         NEW e \in Of, NEW p \in Seq(Signal), DOMAIN p = DOMAIN q,
         \A x \in DOMAIN q : p[x].age = q[x].age + 1 /\ p[x].there = q[x].there,
         \A c \in sfsb_channels : h[c][0] = 0,
         \A c \in sfsb_channels, u \in Units : e[c][u] = IF u = Lifetime THEN 0 ELSE h[c][u + 1]
  PROVE  /\ Spaced(e, i, p)
         /\ \A w \in Nat, v \in Nat : NoneSince(h, i, q, w) /\ v <= w + 1 => NoneSince(e, i, p, v)
<1>1. DOMAIN i = {} /\ AgesOf(i) = {}
  BY DEF AgesOf
<1>2. Interval \in Nat \ {0} /\ Lifetime \in Nat /\ Units = 0 .. Lifetime
  BY Constants, BlacklistAssumption
<1>3. /\ AgesIn(h) \subseteq Nat /\ AgesOf(q) \subseteq Nat /\ AgesComing(q) \subseteq Nat
      /\ \A x \in DOMAIN q : q[x].age \in Nat /\ p[x].age \in Nat
  BY Ages
<1>4. ASSUME NEW b \in AgesIn(e) PROVE \E a \in AgesIn(h) : b = a + 1
  <2>1. PICK c \in sfsb_channels : b \in 0 .. Lifetime /\ e[c][Lifetime - b] > 0
    BY DEF AgesIn
  <2>2. PICK u \in Units : u = Lifetime - b
    BY <1>2, <2>1
  <2>3. u # Lifetime /\ h[c][u + 1] > 0
    BY <2>1, <2>2
  <2>4. PICK a \in 0 .. Lifetime : b = a + 1 /\ u + 1 = Lifetime - a
    BY <1>2, <2>1, <2>2, <2>3
  <2>5. a \in AgesIn(h)
    BY <2>3, <2>4 DEF AgesIn
  <2> QED BY <2>4, <2>5
<1>5. ASSUME NEW b \in AgesOf(p) PROVE \E a \in AgesOf(q) : b = a + 1
  BY DEF AgesOf
<1>6. ASSUME NEW b \in AgesComing(p) PROVE \E a \in AgesComing(q) : b = a + 1
  BY DEF AgesComing
<1>7. \A c \in sfsb_channels, u \in Units : e[c][u] <= 1
  <2> SUFFICES ASSUME NEW c \in sfsb_channels, NEW u \in Units PROVE e[c][u] <= 1
    OBVIOUS
  <2>1. CASE u = Lifetime
    BY <2>1
  <2>2. CASE u # Lifetime
    <3>1. u + 1 \in Units
      BY <1>2, <2>2
    <3> QED BY <2>2, <3>1 DEF Spaced
  <2> QED BY <2>1, <2>2
<1>8. \A b, d \in AgesIn(e) : b < d => b + Interval <= d
  <2> SUFFICES ASSUME NEW b \in AgesIn(e), NEW d \in AgesIn(e), b < d PROVE b + Interval <= d
    OBVIOUS
  <2>1. PICK a \in AgesIn(h), f \in AgesIn(h) : b = a + 1 /\ d = f + 1
    BY <1>4
  <2>2. a + Interval <= f
    BY <1>3, <2>1 DEF Spaced
  <2> QED BY <1>2, <1>3, <2>1, <2>2
<1>9. Decreasing(p)
  <2>1. ASSUME NEW x \in DOMAIN q, NEW y \in DOMAIN q, x < y PROVE p[y].age + Interval <= p[x].age
    <3>1. q[y].age + Interval <= q[x].age
      BY <2>1 DEF Spaced, Decreasing
    <3> QED BY <1>2, <1>3, <3>1, SMTT(30)
  <2> QED BY <2>1 DEF Decreasing
<1>10. \A x \in DOMAIN p : p[x].there => x = 1
  BY DEF Spaced
<1>11. Younger(AgesComing(p), AgesIn(e))
  <2> SUFFICES ASSUME NEW b \in AgesComing(p), NEW d \in AgesIn(e) PROVE b + Interval <= d
    BY DEF Younger
  <2>1. PICK a \in AgesComing(q), f \in AgesIn(h) : b = a + 1 /\ d = f + 1
    BY <1>4, <1>6
  <2>2. a + Interval <= f
    BY <1>3, <2>1 DEF Spaced, Younger
  <2> QED BY <1>2, <1>3, <2>1, <2>2
<1>12. Spaced(e, i, p)
  <2>1. Decreasing(i) /\ Younger(AgesOf(i), AgesIn(e)) /\ Younger(AgesComing(p), AgesOf(i))
    BY <1>1 DEF Decreasing, Younger
  <2> QED BY <1>7, <1>8, <1>9, <1>10, <1>11, <2>1 DEF Spaced
<1>13. ASSUME NEW w \in Nat, NEW v \in Nat, NoneSince(h, i, q, w), v <= w + 1 PROVE NoneSince(e, i, p, v)
  <2> SUFFICES ASSUME NEW b \in AgesIn(e) \cup AgesOf(p) PROVE v <= b
    BY <1>1 DEF NoneSince
  <2>1. PICK a \in AgesIn(h) \cup AgesOf(q) : b = a + 1
    BY <1>4, <1>5
  <2>2. w <= a /\ a \in Nat
    BY <1>3, <1>13 DEF NoneSince
  <2> QED BY <1>13, <2>1, <2>2
<1> QED BY <1>12, <1>13
-----------------------------------------------------------------------------
(* OneARound, of one neighbour m of n.                                     *)
OneEach(n, m) ==
  /\ Spaced(heard[n][m], inbox[n][m], queue[m][n])
  /\ NoneSince(heard[n][m], inbox[n][m], queue[m][n], wait[m])
  /\ m \in posted => /\ wait[m] = 0
                     /\ ~open[m][n] => NoneSince(heard[n][m], inbox[n][m], queue[m][n], Interval)

Shaped == RestTyped /\ heard \in [Nodes -> Heard]

(* What the types say of the entries, inbox and queue between two nodes.   *)
LEMMA ShapeParts ==
  ASSUME NEW n \in Nodes, NEW m \in Nodes
  PROVE  /\ Shaped => /\ heard[n][m] \in Of /\ inbox[n][m] \in Seq(Received) /\ queue[m][n] \in Seq(Signal)
                      /\ wait[m] \in 0 .. Interval
         /\ Shaped' => /\ heard'[n][m] \in Of /\ inbox'[n][m] \in Seq(Received) /\ queue'[m][n] \in Seq(Signal)
                       /\ wait'[m] \in 0 .. Interval
<1>1. ASSUME Shaped
      PROVE  /\ heard[n][m] \in Of /\ inbox[n][m] \in Seq(Received) /\ queue[m][n] \in Seq(Signal)
             /\ wait[m] \in 0 .. Interval
  BY <1>1 DEF Shaped, RestTyped, Heard, Of
<1>2. ASSUME Shaped'
      PROVE  /\ heard'[n][m] \in Of /\ inbox'[n][m] \in Seq(Received) /\ queue'[m][n] \in Seq(Signal)
             /\ wait'[m] \in 0 .. Interval
  BY <1>2 DEF Shaped, RestTyped, Heard, Of
<1> QED BY <1>1, <1>2

(* Nothing that matters to the pair changes.                               *)
LEMMA SameEach ==
  ASSUME NEW n \in Nodes, NEW m \in Nodes, OneEach(n, m),
         heard'[n][m] = heard[n][m], inbox'[n][m] = inbox[n][m], queue'[m][n] = queue[m][n],
         wait'[m] = wait[m], (m \in posted') <=> (m \in posted), open'[m][n] = open[m][n]
  PROVE  OneEach(n, m)'
BY DEF OneEach

(* Entries and SIGNALs become fewer.                                       *)
LEMMA FewerEach ==
  ASSUME Shaped, Shaped', NEW n \in Nodes, NEW m \in Nodes, OneEach(n, m),
         \A c \in sfsb_channels, u \in Units : heard'[n][m][c][u] <= heard[n][m][c][u],
         Within(inbox'[n][m], inbox[n][m]), Within(queue'[m][n], queue[m][n]),
         UNCHANGED <<wait, posted, open>>
  PROVE  OneEach(n, m)'
<1>1. PICK h \in Of, i \in Seq(Received), q \in Seq(Signal) : h = heard[n][m] /\ i = inbox[n][m] /\ q = queue[m][n]
  BY ShapeParts
<1>2. PICK e \in Of, j \in Seq(Received), p \in Seq(Signal) : e = heard'[n][m] /\ j = inbox'[n][m] /\ p = queue'[m][n]
  BY ShapeParts
<1>3. /\ Spaced(e, j, p)
      /\ \A w : NoneSince(h, i, q, w) => NoneSince(e, j, p, w)
  <2>1. Spaced(h, i, q) /\ Within(j, i) /\ Within(p, q) /\ \A c \in sfsb_channels, u \in Units : e[c][u] <= h[c][u]
    BY <1>1, <1>2 DEF OneEach
  <2> QED BY <2>1, FewerSpaced
<1> QED BY <1>1, <1>2, <1>3 DEF OneEach

(* sfsb_bl_send by m, after none for an interval.                          *)
LEMMA SendEach ==
  ASSUME Shaped, Shaped', NEW n \in Nodes, NEW m \in Nodes, NEW tell \in SUBSET Nbrs[m], Send(m, tell),
         OneEach(n, m), UNCHANGED <<heard, inbox>>, wait'[m] = 0,
         ~open[m][n] => NoneSince(heard[n][m], inbox[n][m], queue[m][n], Interval)
  PROVE  OneEach(n, m)'
<1>1. PICK h \in Of, i \in Seq(Received), q \in Seq(Signal) : h = heard[n][m] /\ i = inbox[n][m] /\ q = queue[m][n]
  BY ShapeParts
<1>2. PICK p \in Seq(Signal) : p = queue'[m][n]
  BY ShapeParts
<1>3. h = heard'[n][m] /\ i = inbox'[n][m]
  BY <1>1
<1>4. Spaced(h, i, q)
  BY <1>1 DEF OneEach
<1>5. NoneSince(h, i, p, 0)
  <2>1. AgesIn(h) \subseteq Nat /\ AgesOf(i) \subseteq Nat /\ AgesOf(p) \subseteq Nat
    BY Ages
  <2> QED BY <2>1 DEF NoneSince
<1>6. \/ p = q /\ open'[m][n] = open[m][n]
      \/ /\ ~open[m][n] /\ open'[m][n]
         /\ \E s \in Signal : s.age = 0 /\ ~s.there /\ p = Append(q, s)
  <2>1. RestTyped
    BY DEF Shaped
  <2>2. \A k, l \in Nodes :
          \/ queue'[k][l] = queue[k][l] /\ open'[k][l] = open[k][l]
          \/ /\ k = m /\ l \in Nbrs[m] /\ ~open[k][l] /\ open'[k][l]
             /\ \E s \in Signal : s.age = 0 /\ ~s.there /\ queue'[k][l] = Append(queue[k][l], s)
    BY <2>1, SendEffect
  <2> QED BY <1>1, <1>2, <2>2
<1>7. CASE p = q /\ open'[m][n] = open[m][n]
  <2>1. ~open'[m][n] => NoneSince(h, i, p, Interval)
    BY <1>1, <1>7
  <2>2. Spaced(h, i, p)
    BY <1>4, <1>7
  <2> QED BY <1>2, <1>3, <1>5, <2>1, <2>2 DEF OneEach
<1>8. ASSUME NEW s \in Signal, s.age = 0, ~s.there, p = Append(q, s), ~open[m][n], open'[m][n] PROVE OneEach(n, m)'
  <2>1. NoneSince(h, i, q, Interval)
    BY <1>1, <1>8
  <2>2. Spaced(h, i, p)
    BY <1>4, <1>8, <2>1, SentSpaced
  <2> QED BY <1>2, <1>3, <1>5, <1>8, <2>2 DEF OneEach
<1> QED BY <1>6, <1>7, <1>8

(* A round, or the end of its distribution, sends one SIGNAL to each       *)
(* neighbour told.                                                         *)
LEMMA RoundEach ==
  ASSUME Shaped, Shaped', NEW k \in Nodes, NEW tell \in SUBSET Nbrs[k], Round(k, tell) \/ Distribute(k, tell),
         NEW n \in Nodes, NEW m \in Nodes, OneEach(n, m)
  PROVE  OneEach(n, m)'
<1>1. Send(k, tell) /\ UNCHANGED <<heard, inbox>>
  BY DEF Round, Distribute, lists
<1>2. CASE m # k
  <2>1. queue'[m][n] = queue[m][n] /\ open'[m][n] = open[m][n]
    <3>1. RestTyped
      BY DEF Shaped
    <3>2. \A x, y \in Nodes : (queue'[x][y] = queue[x][y] /\ open'[x][y] = open[x][y]) \/ x = k
      BY <1>1, <3>1, SendEffect
    <3> QED BY <1>2, <3>2
  <2>2. wait'[m] = wait[m] /\ ((m \in posted') <=> (m \in posted))
    BY <1>2 DEF Round, Distribute, Shaped, RestTyped
  <2> QED BY <1>1, <2>1, <2>2, SameEach
<1>3. CASE m = k /\ Round(k, tell)
  <2>1. wait[m] = Interval /\ wait'[m] = 0
    BY <1>3 DEF Round, Shaped, RestTyped
  <2>2. NoneSince(heard[n][m], inbox[n][m], queue[m][n], Interval)
    BY <2>1 DEF OneEach
  <2> QED BY <1>1, <1>3, <2>1, <2>2, SendEach
<1>4. CASE m = k /\ Distribute(k, tell)
  <2>1. m \in posted /\ wait'[m] = wait[m]
    BY <1>4 DEF Distribute
  <2>2. wait'[m] = 0 /\ (~open[m][n] => NoneSince(heard[n][m], inbox[n][m], queue[m][n], Interval))
    BY <2>1 DEF OneEach
  <2> QED BY <1>1, <1>4, <2>2, SendEach
<1> QED BY <1>2, <1>3, <1>4

(* A SIGNAL arrives.                                                       *)
LEMMA ArriveEach ==
  ASSUME Shaped, Shaped', NEW k \in Nodes, NEW l \in Nodes, Arrive(k, l),
         NEW n \in Nodes, NEW m \in Nodes, OneEach(n, m)
  PROVE  OneEach(n, m)'
<1>1. UNCHANGED <<heard, wait, posted, open>>
  BY DEF Arrive, lists
<1>0. PICK s \in Signal, r \in Received, p \in Seq(Signal) : Arrived(k, l, s, r, p)
  <2>1. RestTyped
    BY DEF Shaped
  <2> QED BY <2>1, ArriveEffect
<1>2. /\ queue[k][l] # <<>> /\ s = queue[k][l][1] /\ ~s.there
      /\ r.chs = s.chs /\ r.age = s.age
      /\ DOMAIN p = DOMAIN queue[k][l] /\ p[1] = [s EXCEPT !.there = TRUE]
      /\ \A i \in DOMAIN queue[k][l] : i # 1 => p[i] = queue[k][l][i]
      /\ queue' \in [Nodes -> [Nodes -> Seq(Signal)]] /\ queue'[k][l] = p
      /\ \A a, b \in Nodes : a # k \/ b # l => queue'[a][b] = queue[a][b]
      /\ inbox' \in [Nodes -> [Nodes -> Seq(Received)]] /\ inbox'[l][k] = Append(inbox[l][k], r)
      /\ \A a, b \in Nodes : a # l \/ b # k => inbox'[a][b] = inbox[a][b]
  BY <1>0 DEF Arrived
<1>3. CASE m # k \/ n # l
  <2>1. queue'[m][n] = queue[m][n] /\ inbox'[n][m] = inbox[n][m]
    BY <1>2, <1>3
  <2> QED BY <1>1, <2>1, SameEach
<1>4. CASE m = k /\ n = l
  <2>1. PICK h \in Of, i \in Seq(Received), q \in Seq(Signal) : h = heard[n][m] /\ i = inbox[n][m] /\ q = queue[m][n]
    BY ShapeParts
  <2>2. PICK j : j = Append(i, r)
    OBVIOUS
  <2>3. q # <<>> /\ q[1] = s /\ DOMAIN p = DOMAIN q /\ \A x \in DOMAIN q : x # 1 => p[x] = q[x]
    BY <1>2, <1>4, <2>1
  <2>4. ~q[1].there /\ r.age = q[1].age /\ p[1] = [q[1] EXCEPT !.there = TRUE]
    BY <1>2, <2>3
  <2>5. Spaced(h, i, q)
    BY <2>1 DEF OneEach
  <2>6. /\ Spaced(h, j, p)
        /\ \A w : NoneSince(h, i, q, w) => NoneSince(h, j, p, w)
    <3> HIDE DEF Signal, Received
    <3> QED BY <2>2, <2>3, <2>4, <2>5, ArrivedSpaced
  <2>7. heard'[n][m] = h /\ inbox'[n][m] = j /\ queue'[m][n] = p
    BY <1>1, <1>2, <1>4, <2>1, <2>2
  <2> QED BY <1>1, <2>1, <2>6, <2>7 DEF OneEach
<1> QED BY <1>3, <1>4

(* A SIGNAL that is read: which channels become entries.                   *)
LEMMA InboxUnpacked ==
  ASSUME Shaped, NEW k \in Nodes, NEW l \in Nodes, SignalReqInput(k, l)
  PROVE  \E s \in Received : s = inbox[k][l][1] /\ \E new \in SUBSET s.chs : Unpacked(k, l, s, new)
<1>1. RestTyped /\ heard \in [Nodes -> Heard]
  BY DEF Shaped
<1>2. PICK s \in Received : s = inbox[k][l][1] /\ Unpack(k, l, s)
  <2>1. inbox[k][l] \in Seq(Received) /\ inbox[k][l] # <<>> /\ Unpack(k, l, Head(inbox[k][l]))
    BY <1>1 DEF SignalReqInput, RestTyped
  <2> QED BY <2>1, HeadTaken
<1>3. Unpack(k, l, s)
  BY <1>2
<1> QED BY <1>1, <1>2, <1>3, UnpackEffect

(* A SIGNAL is read.                                                       *)
LEMMA InputEach ==
  ASSUME Shaped, Shaped', NEW k \in Nodes, NEW l \in Nodes, SignalReqInput(k, l),
         NEW n \in Nodes, NEW m \in Nodes, OneEach(n, m)
  PROVE  OneEach(n, m)'
<1>1. inbox[k][l] # <<>> /\ Unpack(k, l, Head(inbox[k][l])) /\ UNCHANGED <<queue, wait, posted, open>>
  BY DEF SignalReqInput
<1>2. /\ inbox'[k][l] = Tail(inbox[k][l])
      /\ \A a, b \in Nodes : a # k \/ b # l => inbox'[a][b] = inbox[a][b]
  <2>1. RestTyped
    BY DEF Shaped
  <2> QED BY <2>1, InboxTaken
<1>3. PICK s \in Received : s = inbox[k][l][1] /\ \E new \in SUBSET s.chs : Unpacked(k, l, s, new)
  BY InboxUnpacked
<1>0. PICK new \in SUBSET s.chs : Unpacked(k, l, s, new)
  BY <1>3
<1>4. /\ new \in SUBSET s.chs
      /\ \A c \in sfsb_channels, u \in Units :
           heard'[k][l][c][u] = IF c \in new /\ u = Left(s) THEN heard[k][l][c][u] + 1 ELSE heard[k][l][c][u]
      /\ \A a, b \in Nodes : a # k \/ b # l => heard'[a][b] = heard[a][b]
  BY <1>0 DEF Unpacked
<1>5. CASE n # k \/ m # l
  BY <1>1, <1>2, <1>4, <1>5, SameEach
<1>6. CASE n = k /\ m = l
  <2>1. PICK h \in Of, i \in Seq(Received), q \in Seq(Signal) : h = heard[n][m] /\ i = inbox[n][m] /\ q = queue[m][n]
    BY ShapeParts
  <2>2. PICK e \in Of : e = heard'[n][m]
    BY ShapeParts
  <2>3. PICK j : j = Tail(i)
    OBVIOUS
  <2>4. new \in SUBSET sfsb_channels
    BY <1>4 DEF Received
  <2>5. i # <<>> /\ s = i[1] /\ Left(s) = Lifetime - i[1].age
    BY <1>1, <1>3, <1>6, <2>1 DEF Left
  <2>6. \A c \in sfsb_channels, u \in Units :
          e[c][u] = IF c \in new /\ u = Lifetime - i[1].age THEN h[c][u] + 1 ELSE h[c][u]
    BY <1>4, <1>6, <2>1, <2>2, <2>5
  <2>7. Spaced(h, i, q)
    BY <2>1 DEF OneEach
  <2>8. /\ Spaced(e, j, q)
        /\ \A w : NoneSince(h, i, q, w) => NoneSince(e, j, q, w)
    <3>1. ReadAs(h, i, e, j, new)
      BY <2>3, <2>4, <2>5, <2>6 DEF ReadAs
    <3> QED BY <2>1, <2>2, <2>7, <3>1, ReadSpaced
  <2>9. inbox'[n][m] = j /\ queue'[m][n] = q
    BY <1>1, <1>2, <1>6, <2>1, <2>3
  <2> QED BY <1>1, <2>1, <2>2, <2>8, <2>9 DEF OneEach
<1> QED BY <1>5, <1>6

(* A unit of time passes.                                                  *)
LEMMA LaterEach ==
  ASSUME Shaped, Shaped', Later, NEW n \in Nodes, NEW m \in Nodes, OneEach(n, m)
  PROVE  OneEach(n, m)'
<1>1. posted' = {} /\ inbox[n][m] = <<>> /\ inbox' = inbox
  BY DEF Later
<1>2. PICK h \in Of, i \in Seq(Received), q \in Seq(Signal) : h = heard[n][m] /\ i = inbox[n][m] /\ q = queue[m][n]
  BY ShapeParts
<1>3. PICK e \in Of, p \in Seq(Signal) : e = heard'[n][m] /\ p = queue'[m][n]
  BY ShapeParts
<1>4. PICK w \in Nat, v \in Nat : w = wait[m] /\ v = wait'[m]
  <2>1. wait[m] \in 0 .. Interval /\ wait'[m] \in 0 .. Interval
    BY ShapeParts
  <2> QED BY <2>1
<1>5. RestTyped /\ heard \in [Nodes -> Heard]
  BY DEF Shaped
<1>6. /\ \A c \in sfsb_channels :
           /\ heard[n][m][c][0] = 0
           /\ \A u \in Units : heard'[n][m][c][u] = IF u = Lifetime THEN 0 ELSE heard[n][m][c][u + 1]
      /\ DOMAIN queue'[m][n] = DOMAIN queue[m][n]
      /\ \A x \in DOMAIN queue[m][n] : /\ queue'[m][n][x].age = queue[m][n][x].age + 1
                                       /\ queue'[m][n][x].there = queue[m][n][x].there
      /\ wait'[m] <= wait[m] + 1
  BY <1>5, LaterEffect
<1>7. Spaced(h, i, q) /\ NoneSince(h, i, q, w)
  BY <1>2, <1>4 DEF OneEach
<1>8. i = <<>> /\ DOMAIN p = DOMAIN q /\ v <= w + 1
      /\ \A x \in DOMAIN q : p[x].age = q[x].age + 1 /\ p[x].there = q[x].there
  BY <1>1, <1>2, <1>3, <1>4, <1>6
<1>9. /\ \A c \in sfsb_channels : h[c][0] = 0
      /\ \A c \in sfsb_channels, u \in Units : e[c][u] = IF u = Lifetime THEN 0 ELSE h[c][u + 1]
  BY <1>2, <1>3, <1>6
<1>10. /\ Spaced(e, i, p)
       /\ \A a \in Nat, b \in Nat : NoneSince(h, i, q, a) /\ b <= a + 1 => NoneSince(e, i, p, b)
  BY <1>7, <1>8, <1>9, OlderSpaced
<1>11. NoneSince(e, i, p, v)
  BY <1>7, <1>8, <1>10
<1> QED BY <1>1, <1>2, <1>3, <1>4, <1>10, <1>11 DEF OneEach
-----------------------------------------------------------------------------
(* Every step keeps it, of any two nodes.                                  *)
LEMMA NextEach ==
  ASSUME Shaped, Shaped', [Next]_vars, NEW n \in Nodes, NEW m \in Nodes, OneEach(n, m)
  PROVE  OneEach(n, m)'
<1>1. /\ heard[n][m] \in Of /\ heard'[n][m] \in Of
      /\ inbox[n][m] \in Seq(Received) /\ queue[m][n] \in Seq(Signal)
  BY ShapeParts
<1>2. /\ \A c \in sfsb_channels, u \in Units : heard[n][m][c][u] <= heard[n][m][c][u]
      /\ Within(inbox[n][m], inbox[n][m]) /\ Within(queue[m][n], queue[m][n])
  <2>1. \A c \in sfsb_channels, u \in Units : heard[n][m][c][u] \in Nat
    BY <1>1 DEF Of
  <2> QED BY <1>1, <2>1, WithinTail
<1>3. CASE UNCHANGED <<heard, inbox, queue, wait, posted, open>>
  BY <1>3, SameEach
<1>4. ASSUME NEW k \in Nodes, NEW tell \in SUBSET Nbrs[k], Round(k, tell) \/ Distribute(k, tell) PROVE OneEach(n, m)'
  BY <1>4, RoundEach
<1>5. ASSUME NEW a \in Pairs,
             \/ Arrive(a[1], a[2]) \/ Acked(a[1], a[2]) \/ NotAcked(a[1], a[2])
             \/ SignalReqInput(a[1], a[2]) \/ Refuse(a[1], a[2])
             \/ TransTimeout(a[1], a[2]) \/ Negotiated(a[1], a[2])
             \/ \E c \in sfsb_channels : ExpireHeard(a[1], a[2], c)
      PROVE  OneEach(n, m)'
  <2>0. PICK k \in Nodes, l \in Nodes : k = a[1] /\ l = a[2]
    BY Constants
  <2>1. CASE Arrive(k, l)
    BY <2>1, ArriveEach
  <2>2. CASE Acked(k, l) \/ NotAcked(k, l)
    <3>1. /\ queue[k][l] # <<>> /\ queue' = [queue EXCEPT ![k][l] = Tail(@)]
          /\ UNCHANGED <<heard, inbox, wait, posted, open>>
      BY <2>2 DEF Acked, NotAcked, Under, lists
    <3>2. /\ queue'[k][l] = Tail(queue[k][l])
          /\ \A x, y \in Nodes : x # k \/ y # l => queue'[x][y] = queue[x][y]
      <4>1. RestTyped
        BY DEF Shaped
      <4> QED BY <2>2, <4>1, QueueTaken
    <3>3. Within(queue'[m][n], queue[m][n])
      <4>1. CASE m = k /\ n = l
        BY <1>1, <3>1, <3>2, <4>1, WithinTail
      <4>2. CASE m # k \/ n # l
        BY <1>2, <3>2, <4>2
      <4> QED BY <4>1, <4>2
    <3> QED BY <1>2, <3>1, <3>3, FewerEach
  <2>3. CASE SignalReqInput(k, l)
    BY <2>3, InputEach
  <2>4. CASE Refuse(k, l)
    <3>1. /\ inbox[k][l] # <<>> /\ inbox' = [inbox EXCEPT ![k][l] = Tail(@)]
          /\ UNCHANGED <<heard, queue, wait, posted, open>>
      BY <2>4 DEF Refuse, lists
    <3>2. /\ inbox'[k][l] = Tail(inbox[k][l])
          /\ \A x, y \in Nodes : x # k \/ y # l => inbox'[x][y] = inbox[x][y]
      <4>1. RestTyped
        BY DEF Shaped
      <4> QED BY <2>4, <4>1, InboxTaken
    <3>3. Within(inbox'[n][m], inbox[n][m])
      <4>1. CASE n = k /\ m = l
        BY <1>1, <3>1, <3>2, <4>1, WithinTail
      <4>2. CASE n # k \/ m # l
        BY <1>2, <3>2, <4>2
      <4> QED BY <4>1, <4>2
    <3> QED BY <1>2, <3>1, <3>3, FewerEach
  <2>5. CASE TransTimeout(k, l)
    <3>1. k \notin posted /\ open' = [open EXCEPT ![k][l] = FALSE] /\ UNCHANGED <<heard, inbox, queue, wait, posted>>
      BY <2>5 DEF TransTimeout, lists
    <3>2. CASE m = k
      BY <3>1, <3>2 DEF OneEach
    <3>3. CASE m # k
      <4>1. open'[m][n] = open[m][n]
        BY <3>1, <3>3 DEF Shaped, RestTyped
      <4> QED BY <3>1, <4>1, SameEach
    <3> QED BY <3>2, <3>3
  <2>6. CASE Negotiated(k, l)
    BY <1>3, <2>6 DEF Negotiated, lists, signals
  <2>7. CASE \E c \in sfsb_channels : ExpireHeard(k, l, c)
    <3>1. PICK c \in sfsb_channels : ExpireHeard(k, l, c)
      BY <2>7
    <3>2. \A x, y \in Nodes, d \in sfsb_channels, u \in Units : heard'[x][y][d][u] <= heard[x][y][d][u]
      BY <3>1, ExpireHeardEffect DEF Shaped
    <3>3. UNCHANGED <<inbox, queue, wait, posted, open>>
      BY <3>1 DEF ExpireHeard, signals
    <3> QED BY <1>2, <3>2, <3>3, FewerEach
  <2> QED BY <1>5, <2>0, <2>1, <2>2, <2>3, <2>4, <2>5, <2>6, <2>7
<1>6. CASE \E k \in Nodes, c \in sfsb_channels : Expire(k, c)
  BY <1>3, <1>6 DEF Expire, signals
<1>7. CASE Stop \/ Tick \/ UNCHANGED vars
  BY <1>3, <1>7 DEF Stop, Tick, vars, lists, signals
<1>8. CASE Later
  BY <1>8, LaterEach
<1> QED BY <1>4, <1>5, <1>6, <1>7, <1>8 DEF Next

(* It holds of the initial states, with nothing sent.                      *)
LEMMA InitEach == Init => OneARound
<1> SUFFICES ASSUME Init, NEW n \in Nodes, NEW m \in Nodes PROVE OneEach(n, m)
  BY DEF OneARound, OneEach
<1>1. AgesIn(heard[n][m]) = {} /\ AgesOf(inbox[n][m]) = {} /\ AgesOf(queue[m][n]) = {} /\ AgesComing(queue[m][n]) = {}
  <2>1. inbox[n][m] = <<>> /\ queue[m][n] = <<>> /\ DOMAIN inbox[n][m] = {} /\ DOMAIN queue[m][n] = {}
    BY DEF Init
  <2>2. \A c \in sfsb_channels, a \in 0 .. Lifetime : heard[n][m][c][Lifetime - a] = 0
    <3>1. \A a \in 0 .. Lifetime : Lifetime - a \in Units
      BY Constants
    <3> QED BY <3>1 DEF Init
  <2> QED BY <2>1, <2>2 DEF AgesIn, AgesOf, AgesComing
<1>2. \A c \in sfsb_channels, u \in Units : heard[n][m][c][u] <= 1
  BY DEF Init
<1>3. DOMAIN inbox[n][m] = {} /\ DOMAIN queue[m][n] = {} /\ m \notin posted
  BY DEF Init
<1> QED BY <1>1, <1>2, <1>3 DEF OneEach, Spaced, NoneSince, Younger, Decreasing

(* So every step keeps it of all.                                          *)
LEMMA NextOneARound == PoolInv /\ PoolInv' /\ OneARound /\ [Next]_vars => OneARound'
<1> SUFFICES ASSUME PoolInv, PoolInv', OneARound, [Next]_vars, NEW n \in Nodes, NEW m \in Nodes PROVE OneEach(n, m)'
  BY DEF OneARound, OneEach
<1>1. Shaped
  BY PoolIs DEF Shaped, InPool
<1>2. Shaped'
  <2>1. heard' \in [Nodes -> Heard] /\ RestTyped'
    <3>1. TypeOK'
      BY DEF PoolInv
    <3>2. 0 .. NbrPool \subseteq Nat
      BY BlacklistAssumption
    <3>3. heard' \in [Nodes -> [Nodes -> [sfsb_channels -> [Units -> 0 .. NbrPool]]]]
      BY <3>1 DEF TypeOK
    <3>4. heard' \in [Nodes -> Heard]
      BY <3>2, <3>3 DEF Heard
    <3>5. RestTyped'
      BY <3>1 DEF TypeOK, RestTyped, Informed, Signal, Received
    <3> QED BY <3>4, <3>5
  <2> QED BY <2>1 DEF Shaped
<1>3. OneEach(n, m)
  BY DEF OneARound, OneEach
<1> QED BY <1>1, <1>2, <1>3, NextEach

(* Entries an interval apart in a lifetime are at most a lifetime by the   *)
(* interval, and one.                                                      *)
LEMMA SpacedFewCopies == PoolInv /\ OneARound => FewCopies
<1> SUFFICES ASSUME PoolInv, OneARound, NEW p \in Pairs, NEW c \in sfsb_channels
             PROVE  Copies(p[1], p[2], c) <= (Lifetime \div Interval) + 1
  BY DEF FewCopies
<1>1. PICK n \in Nodes, m \in Nodes : n = p[1] /\ m = p[2]
  BY Constants
<1>2. Shaped
  BY PoolIs DEF Shaped, InPool
<1>3. PICK h \in Of : h = heard[n][m]
  BY <1>2, ShapeParts
<1>4. /\ \A d \in sfsb_channels, u \in Units : h[d][u] <= 1
      /\ \A a, b \in AgesIn(h) : a < b => a + Interval <= b
  BY <1>3 DEF OneARound, Spaced
<1>5. Lifetime \in Nat /\ Units = 0 .. Lifetime /\ Interval \in Nat \ {0}
  BY Constants, BlacklistAssumption
<1>6. PICK f \in [0 .. Lifetime -> Nat] : f = h[c]
  BY <1>5 DEF Of
<1>7. \A u \in 0 .. Lifetime : f[u] <= 1
  BY <1>4, <1>5, <1>6
<1>8. ASSUME NEW u \in 0 .. Lifetime, NEW v \in 0 .. Lifetime, f[u] > 0, f[v] > 0, u < v PROVE u + Interval <= v
  <2>1. PICK a \in 0 .. Lifetime, b \in 0 .. Lifetime : a = Lifetime - v /\ b = Lifetime - u
    BY <1>5
  <2>2. u = Lifetime - b /\ v = Lifetime - a
    BY <1>5, <2>1
  <2>3. a \in AgesIn(h) /\ b \in AgesIn(h)
    BY <1>6, <1>8, <2>2 DEF AgesIn
  <2>4. a < b
    BY <1>5, <1>8, <2>1
  <2>5. a + Interval <= b
    BY <1>4, <2>3, <2>4
  <2> QED BY <1>5, <2>1, <2>5
<1>9. SumFunctionOnSet(f, 0 .. Lifetime) <= (Lifetime \div Interval) + 1
  BY <1>5, <1>7, <1>8, SpacedSum
<1>10. Copies(n, m, c) = SumFunctionOnSet(f, 0 .. Lifetime)
  <2>1. DOMAIN f = 0 .. Lifetime
    OBVIOUS
  <2> QED BY <1>3, <1>6, <2>1 DEF Copies, SumFunction
<1> QED BY <1>1, <1>9, <1>10

(* Blacklist.FewCopies is a theorem: of a channel a neighbour blacklists,  *)
(* a node holds at most one entry for each interval begun in a lifetime.   *)
(* The code does not see to that: sfsb_bl_generic_add_update looks for the *)
(* channel in the private list alone, and adds it to that of the neighbour *)
(* again. It is the application that sends one SIGNAL a round, and SIGNALs *)
(* are read in order and not twice.                                        *)
THEOREM FewCopiesEach == Spec => []FewCopies
<1>1. PoolInv /\ OneARound /\ [Next]_vars => PoolInv' /\ OneARound'
  BY PoolNext, NextOneARound
<1>2. Init => PoolInv /\ OneARound
  BY InitPool, InitEach
<1> QED BY <1>1, <1>2, SpacedFewCopies, PTL DEF Spec
=============================================================================
