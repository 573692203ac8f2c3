------------------------- MODULE PhoneDeletedProofs -------------------------
(***************************************************************************)
(* Which commands of Phone can meet a call that was deleted, for any       *)
(* number of messages on the way from the end of a session to ~Call: those *)
(* a web thread posts too late, and the run command of a long enough row   *)
(* of plays without sounds.  The invariant says what may be before and     *)
(* after the messages that destroy a call, in the fifo; it rests on a call *)
(* that is over staying over.                                              *)
(***************************************************************************)
EXTENDS PhoneProofs

Is(k, op, c) == fifo[k].op = op /\ fifo[k].call = c
Joins(c) == sip.at = "join" /\ sip.call = c
IsSetup(op) == op \in {"ringing", "answer", "bye"}

\* A call that ends was up; one that is not up has no player that works.
UpInv ==
    \A c \in Calls :
        /\ Joins(c) => life[c] \in {"dialing", "listed", "cancelling"}
        /\ life[c] \in {"none", "over", "destroyed"} =>
              player[c] \in {"off", "ended"}

\* Where the other party has not answered yet, nothing else has happened.
PartyInv ==
    \A c \in Calls :
        /\ peer[c] \in {"none", "calling"} => life[c] = "none"
        /\ peer[c] = "invited" => life[c] = "dialing" /\ ~Joins(c)

\* It has sent nothing then, but for the invitation of an incoming call.
SetupInv ==
    \A k \in DOMAIN fifo : \A c \in Calls : fifo[k].call = c =>
        /\ IsSetup(fifo[k].op) => peer[c] \notin {"none", "calling", "invited"}
        /\ fifo[k].op = "invite" =>
              /\ peer[c] = "calling"
              /\ \A l \in DOMAIN fifo : Is(l, "invite", c) => k = l

\* It rings once, and before it says anything else.
RingInv ==
    \A k \in DOMAIN fifo : \A c \in Calls : Is(k, "ringing", c) =>
        /\ life[c] = "dialing" /\ ~Joins(c)
        /\ \A l \in DOMAIN fifo :
              fifo[l].call = c /\ IsSetup(fifo[l].op) /\ k # l =>
                  k < l /\ fifo[l].op # "ringing"

\* One message at a time destroys a call, and only one that is over.  What
\* the player and, in time, the web threads have posted comes before the
\* first of these messages.  A run command that comes before the hop-th one
\* is there for hop - 2 plays without sounds, one that comes after it for one
\* more.
DestroyInv ==
    \A k \in DOMAIN fifo : \A c \in Calls : Is(k, "destroy", c) =>
        /\ life[c] = "over" /\ fifo[k].hop \in 1..Hops
        /\ \A l \in DOMAIN fifo :
              /\ Is(l, "destroy", c) => k = l
              /\ Is(l, "empty", c) => fifo[k].hop = 1 /\ l < k
              /\ c \notin late /\ Is(l, "add", c) => fifo[k].hop = 1 /\ l < k
              /\ c \notin late /\ Is(l, "run", c) =>
                    /\ fifo[k].hop <= empties[c] + 2
                    /\ k < l => fifo[k].hop <= empties[c] + 1

\* What is left in the fifo for a call that was deleted.
GoneInv ==
    \A k \in DOMAIN fifo : \A c \in Calls :
        fifo[k].call = c /\ life[c] = "destroyed" =>
            /\ fifo[k].op # "empty"
            /\ c \notin late =>
                  /\ fifo[k].op # "add"
                  /\ fifo[k].op = "run" => Hops <= empties[c] + 1

DeletedInv == /\ UpInv /\ PartyInv /\ SetupInv /\ RingInv /\ DestroyInv
              /\ GoneInv /\ DeadUseOnlyLate

-----------------------------------------------------------------------------
(* The fifo *)

\* What is in the fifo next was there before, s places further back, or is
\* one of the messages in M and comes after all of these.
Shifted(s, M) ==
    \A k \in DOMAIN fifo' :
        /\ k \in Nat
        /\ \/ k + s \in DOMAIN fifo /\ k + s <= Len(fifo)
              /\ fifo'[k] = fifo[k + s]
           \/ k + s > Len(fifo) /\ fifo'[k] \in M

LEMMA Indices ==
    ASSUME FifoOK
    PROVE  /\ Len(fifo) \in Nat
           /\ \A k \in DOMAIN fifo : k \in Nat \ {0} /\ k <= Len(fifo)
           /\ \A k \in DOMAIN fifo : fifo[k] \in Messages
           /\ \A k \in DOMAIN fifo : fifo[k].call \in Calls
                                     /\ fifo[k].hop \in 0..Hops
<1>1. /\ Len(fifo) \in Nat
      /\ \A k \in DOMAIN fifo : k \in Nat \ {0} /\ k <= Len(fifo)
  BY DEF FifoOK
<1>2. \A k \in DOMAIN fifo : fifo[k] \in Messages
  BY ElementType DEF FifoOK
<1> QED
  BY <1>1, <1>2 DEF Messages

LEMMA PostShift ==
    ASSUME FifoOK, NEW m \in Messages, Post(m)
    PROVE  Shifted(0, {m})
<1>1. ASSUME NEW k \in DOMAIN fifo'
      PROVE  /\ k \in Nat
             /\ \/ k + 0 \in DOMAIN fifo /\ k + 0 <= Len(fifo)
                   /\ fifo'[k] = fifo[k + 0]
                \/ k + 0 > Len(fifo) /\ fifo'[k] \in {m}
  <2>1. \/ k \in DOMAIN fifo /\ fifo'[k] = fifo[k]
        \/ k = Len(fifo) + 1 /\ fifo'[k] = m
    BY <1>1, PostAt
  <2>2. CASE k \in DOMAIN fifo /\ fifo'[k] = fifo[k]
    <3>1. k \in Nat /\ k + 0 = k /\ k <= Len(fifo)
      BY <2>2, Indices
    <3> QED
      BY <2>2, <3>1
  <2>3. CASE k = Len(fifo) + 1 /\ fifo'[k] = m
    <3>1. k \in Nat /\ k + 0 > Len(fifo)
      BY <2>3, Indices
    <3> QED
      BY <2>3, <3>1
  <2> QED
    BY <2>1, <2>2, <2>3
<1> QED
  BY <1>1 DEF Shifted

LEMMA DoneShift ==
    ASSUME FifoOK, fifo # <<>>, NEW ms \in Seq(Messages), DoneThen(ms)
    PROVE  Shifted(1, {ms[j] : j \in DOMAIN ms})
<1>1. ASSUME NEW k \in DOMAIN fifo'
      PROVE  /\ k \in Nat
             /\ \/ k + 1 \in DOMAIN fifo /\ k + 1 <= Len(fifo)
                   /\ fifo'[k] = fifo[k + 1]
                \/ k + 1 > Len(fifo) /\ fifo'[k] \in {ms[j] : j \in DOMAIN ms}
  <2>1. k \in Nat /\ Len(fifo) \in Nat
    BY <1>1, DoneAt
  <2>2. CASE k < Len(fifo) /\ k + 1 \in DOMAIN fifo /\ fifo'[k] = fifo[k + 1]
    BY <2>1, <2>2
  <2>3. CASE k >= Len(fifo) /\ k + 1 - Len(fifo) \in DOMAIN ms
             /\ fifo'[k] = ms[k + 1 - Len(fifo)]
    BY <2>1, <2>3
  <2> QED
    BY <1>1, <2>2, <2>3, DoneAt
<1> QED
  BY <1>1 DEF Shifted

\* The two ways to handle a message without an answer to it, or with one.
LEMMA HandledShift ==
    ASSUME FifoOK, fifo # <<>>
    PROVE  /\ Done => Shifted(1, {})
           /\ \A m \in Messages : DoneThen(<<m>>) => Shifted(1, {m})
<1>1. Done => Shifted(1, {})
  <2>1. {<<>>[j] : j \in DOMAIN <<>>} = {}
    OBVIOUS
  <2> QED
    BY <2>1, NothingMore, DoneShift
<1>2. ASSUME NEW m \in Messages, DoneThen(<<m>>) PROVE Shifted(1, {m})
  <2>1. <<m>> \in Seq(Messages) /\ {<<m>>[j] : j \in DOMAIN <<m>>} = {m}
    OBVIOUS
  <2>2. Shifted(1, {<<m>>[j] : j \in DOMAIN <<m>>})
    BY <1>2, <2>1, DoneShift
  <2> QED
    BY <2>1, <2>2
<1> QED
  BY <1>1, <1>2

LEMMA SameShift ==
    ASSUME FifoOK, UNCHANGED fifo
    PROVE  Shifted(0, {})
<1>1. \A k \in DOMAIN fifo : k + 0 = k /\ k \in Nat /\ k <= Len(fifo)
  BY Indices
<1> QED
  BY <1>1 DEF Shifted

LEMMA HeadAt ==
    ASSUME FifoOK, fifo # <<>>
    PROVE  1 \in DOMAIN fifo /\ fifo[1] = Head(fifo) /\ Head(fifo).call \in Calls
<1>1. 1 \in DOMAIN fifo /\ fifo[1] = Head(fifo)
  BY DEF FifoOK
<1> QED
  BY <1>1, HeadType

-----------------------------------------------------------------------------
(* What keeps the messages in order *)

\* Calls that are over stay it, none is deleted, and the counts only grow.
Stays ==
    /\ \A c \in Calls : /\ life[c] = "over" => life'[c] = "over"
                        /\ life'[c] = "destroyed" => life[c] = "destroyed"
                        /\ empties[c] \in Nat /\ empties'[c] \in Nat
                        /\ empties[c] <= empties'[c]
    /\ late \subseteq late'

\* The message m may be posted: it destroys nothing, and comes from the player
\* or from a web thread only while the call is there.
MayFollow(m) ==
    /\ m.op # "destroy"
    /\ m.op = "empty" => life[m.call] \notin {"over", "destroyed"}
    /\ m.op = "add" => \/ life[m.call] \notin {"over", "destroyed"}
                       \/ m.call \in late'
    /\ m.op = "run" =>
          /\ life[m.call] # "destroyed"
          /\ \A k \in DOMAIN fifo :
                Is(k, "destroy", m.call) /\ m.call \notin late' =>
                    fifo[k].hop <= empties'[m.call] + 1

LEMMA EndStep ==
    ASSUME FifoOK, FifoOK', DestroyInv, GoneInv, Stays,
           NEW s \in {0, 1}, NEW M, Shifted(s, M), \A m \in M : MayFollow(m)
    PROVE  DestroyInv' /\ GoneInv'
<1>1. /\ Len(fifo) \in Nat /\ s \in Nat
      /\ \A k \in DOMAIN fifo : k \in Nat \ {0} /\ k <= Len(fifo)
                                /\ fifo[k].hop \in 0..Hops
      /\ Hops \in Nat
  BY Indices, PhoneAssumption
<1>2. ASSUME NEW k \in DOMAIN fifo', NEW c \in Calls, Is(k, "destroy", c)'
      PROVE  /\ life'[c] = "over" /\ fifo'[k].hop \in 1..Hops
             /\ \A l \in DOMAIN fifo' :
                   /\ Is(l, "destroy", c)' => k = l
                   /\ Is(l, "empty", c)' => fifo'[k].hop = 1 /\ l < k
                   /\ c \notin late' /\ Is(l, "add", c)' =>
                         fifo'[k].hop = 1 /\ l < k
                   /\ c \notin late' /\ Is(l, "run", c)' =>
                         /\ fifo'[k].hop <= empties'[c] + 2
                         /\ k < l => fifo'[k].hop <= empties'[c] + 1
  <2>1. /\ k \in Nat /\ k + s \in DOMAIN fifo /\ k + s <= Len(fifo)
        /\ fifo'[k] = fifo[k + s] /\ Is(k + s, "destroy", c)
    BY <1>2 DEF Shifted, MayFollow, Is
  <2>2. life[c] = "over" /\ life'[c] = "over" /\ fifo'[k].hop \in 1..Hops
    BY <2>1 DEF DestroyInv, Stays
  <2>3. ASSUME NEW l \in DOMAIN fifo'
        PROVE  /\ Is(l, "destroy", c)' => k = l
               /\ Is(l, "empty", c)' => fifo'[k].hop = 1 /\ l < k
               /\ c \notin late' /\ Is(l, "add", c)' =>
                     fifo'[k].hop = 1 /\ l < k
               /\ c \notin late' /\ Is(l, "run", c)' =>
                     /\ fifo'[k].hop <= empties'[c] + 2
                     /\ k < l => fifo'[k].hop <= empties'[c] + 1
    <3>1. CASE l + s \in DOMAIN fifo /\ l + s <= Len(fifo)
               /\ fifo'[l] = fifo[l + s]
      <4> DEFINE i == k + s
                 j == l + s
      <4>1. /\ l \in Nat /\ i \in DOMAIN fifo /\ j \in DOMAIN fifo
            /\ i = j => k = l
            /\ j < i => l < k
            /\ k < l => i < j
        BY <1>1, <2>1, <3>1 DEF Shifted
      <4>2. /\ fifo'[k] = fifo[i] /\ fifo'[l] = fifo[j] /\ Is(i, "destroy", c)
            /\ \A op \in Op : Is(l, op, c)' <=> Is(j, op, c)
        BY <2>1, <3>1 DEF Is
      <4>3. {"destroy", "empty", "add", "run"} \subseteq Op
        BY DEF Op
      <4>4. /\ empties[c] \in Nat /\ empties'[c] \in Nat
            /\ empties[c] <= empties'[c] /\ (c \notin late' => c \notin late)
        BY DEF Stays
      <4>5. fifo[i].hop \in Nat
        BY <1>1, <4>1
      <4> HIDE DEF i, j
      <4>6. /\ Is(j, "destroy", c) => i = j
            /\ Is(j, "empty", c) => fifo[i].hop = 1 /\ j < i
            /\ c \notin late /\ Is(j, "add", c) => fifo[i].hop = 1 /\ j < i
            /\ c \notin late /\ Is(j, "run", c) =>
                  /\ fifo[i].hop <= empties[c] + 2
                  /\ i < j => fifo[i].hop <= empties[c] + 1
        BY <4>1, <4>2 DEF DestroyInv
      <4> QED
        BY <4>1, <4>2, <4>3, <4>4, <4>5, <4>6
    <3>2. CASE l + s > Len(fifo) /\ fifo'[l] \in M
      <4> DEFINE m == fifo'[l]
      <4>1. m \in M /\ MayFollow(m) /\ k < l
        BY <1>1, <2>1, <3>2 DEF Shifted
      <4>2. Is(l, "run", c)' /\ c \notin late' =>
                fifo[k + s].hop <= empties'[c] + 1
        BY <2>1, <4>1 DEF MayFollow, Is
      <4>3. ~Is(l, "destroy", c)' /\ ~Is(l, "empty", c)'
            /\ (c \notin late' => ~Is(l, "add", c)')
        BY <2>2, <4>1 DEF MayFollow, Is
      <4>4. fifo'[k].hop \in Nat /\ empties'[c] \in Nat
        BY <1>1, <2>1 DEF Stays
      <4> HIDE DEF m
      <4> QED
        BY <2>1, <4>2, <4>3, <4>4
    <3> QED
      BY <3>1, <3>2 DEF Shifted
  <2> QED
    BY <2>2, <2>3
<1>3. ASSUME NEW k \in DOMAIN fifo', NEW c \in Calls, fifo'[k].call = c,
             life'[c] = "destroyed"
      PROVE  /\ fifo'[k].op # "empty"
             /\ c \notin late' =>
                   /\ fifo'[k].op # "add"
                   /\ fifo'[k].op = "run" => Hops <= empties'[c] + 1
  <2>1. /\ life[c] = "destroyed" /\ (c \notin late' => c \notin late)
        /\ empties[c] \in Nat /\ empties'[c] \in Nat
        /\ empties[c] <= empties'[c]
    BY <1>3 DEF Stays
  <2>2. CASE k + s \in DOMAIN fifo /\ fifo'[k] = fifo[k + s]
    <3>1. /\ fifo'[k].op # "empty"
          /\ c \notin late => /\ fifo'[k].op # "add"
                              /\ fifo'[k].op = "run" => Hops <= empties[c] + 1
      BY <1>3, <2>1, <2>2 DEF GoneInv
    <3> QED
      BY <1>1, <2>1, <3>1
  <2>3. CASE fifo'[k] \in M
    BY <1>3, <2>1, <2>3 DEF MayFollow
  <2> QED
    BY <2>2, <2>3 DEF Shifted
<1>4. DestroyInv'
  BY <1>2 DEF DestroyInv
<1>5. GoneInv'
  BY <1>3 DEF GoneInv
<1> QED
  BY <1>4, <1>5

\* A call that is being set up: what the messages that wait say of it goes on
\* to hold, and the other party does not go back.
SetupStays(s) ==
    /\ \A k \in DOMAIN fifo : \A c \in Calls : k > s =>
          /\ Is(k, "ringing", c) => life'[c] = "dialing" /\ ~Joins(c)'
          /\ Is(k, "invite", c) => peer'[c] = "calling"
    /\ \A c \in Calls : peer'[c] \in {"none", "calling", "invited"} =>
          peer[c] \in {"none", "calling", "invited"}

LEMMA SetupStep ==
    ASSUME FifoOK, FifoOK', SetupInv, RingInv, NEW s \in {0, 1},
           SetupStays(s), NEW M, Shifted(s, M),
           \A m \in M :
               /\ m.op \notin {"ringing", "invite"}
               /\ IsSetup(m.op) =>
                     peer'[m.call] \notin {"none", "calling", "invited"}
    PROVE  SetupInv' /\ RingInv'
<1>1. /\ Len(fifo) \in Nat /\ s \in Nat
      /\ \A k \in DOMAIN fifo : k \in Nat \ {0} /\ k <= Len(fifo)
      /\ \A k \in DOMAIN fifo' : k \in Nat \ {0}
  BY Indices DEF Shifted
<1>2. ASSUME NEW k \in DOMAIN fifo', NEW c \in Calls, fifo'[k].call = c
      PROVE  /\ IsSetup(fifo'[k].op) =>
                    peer'[c] \notin {"none", "calling", "invited"}
             /\ fifo'[k].op = "invite" =>
                    /\ peer'[c] = "calling"
                    /\ \A l \in DOMAIN fifo' : Is(l, "invite", c)' => k = l
  <2>1. CASE k + s \in DOMAIN fifo /\ fifo'[k] = fifo[k + s]
    <3>1. k + s > s
      BY <1>1
    <3>2. IsSetup(fifo'[k].op) => peer[c] \notin {"none", "calling", "invited"}
      BY <1>2, <2>1 DEF SetupInv
    <3>3. fifo'[k].op = "invite" => peer'[c] = "calling"
      BY <1>2, <2>1, <3>1 DEF SetupStays, Is
    <3>4. ASSUME NEW l \in DOMAIN fifo', Is(l, "invite", c)',
                 fifo'[k].op = "invite"
          PROVE  k = l
      <4>1. l + s \in DOMAIN fifo /\ fifo'[l] = fifo[l + s] /\ l \in Nat
        BY <3>4 DEF Shifted, Is
      <4>2. k + s = l + s
        BY <1>2, <2>1, <3>4, <4>1 DEF SetupInv, Is
      <4> QED
        BY <1>1, <4>1, <4>2
    <3> QED
      BY <3>2, <3>3, <3>4 DEF SetupStays
  <2>2. CASE fifo'[k] \in M
    BY <1>2, <2>2
  <2> QED
    BY <2>1, <2>2 DEF Shifted
<1>3. ASSUME NEW k \in DOMAIN fifo', NEW c \in Calls, Is(k, "ringing", c)'
      PROVE  /\ life'[c] = "dialing" /\ ~Joins(c)'
             /\ \A l \in DOMAIN fifo' :
                   fifo'[l].call = c /\ IsSetup(fifo'[l].op) /\ k # l =>
                       k < l /\ fifo'[l].op # "ringing"
  <2>1. k + s \in DOMAIN fifo /\ fifo'[k] = fifo[k + s] /\ k + s > s
    BY <1>1, <1>3 DEF Shifted, Is
  <2>2. Is(k + s, "ringing", c) /\ life'[c] = "dialing" /\ ~Joins(c)'
    BY <1>3, <2>1 DEF SetupStays, Is
  <2>3. ASSUME NEW l \in DOMAIN fifo', fifo'[l].call = c,
               IsSetup(fifo'[l].op), k # l
        PROVE  k < l /\ fifo'[l].op # "ringing"
    <3>1. CASE l + s \in DOMAIN fifo /\ fifo'[l] = fifo[l + s]
      <4>1. k + s # l + s
        BY <1>1, <2>3
      <4>2. k + s < l + s /\ fifo[l + s].op # "ringing"
        BY <2>1, <2>2, <2>3, <3>1, <4>1 DEF RingInv
      <4> QED
        BY <1>1, <3>1, <4>2
    <3>2. CASE l + s > Len(fifo) /\ fifo'[l] \in M
      BY <1>1, <2>1, <3>2
    <3> QED
      BY <3>1, <3>2 DEF Shifted
  <2> QED
    BY <2>2, <2>3
<1> QED
  BY <1>2, <1>3 DEF SetupInv, RingInv

-----------------------------------------------------------------------------
(* Steps that neither set up a call nor end one *)

LEMMA Fields ==
    ASSUME NEW op, NEW c, NEW a
    PROVE  /\ Message(op, c, a).op = op /\ Message(op, c, a).call = c
           /\ Message(op, c, a).hop = 0
BY DEF Message

\* Calls stay where they are; a player that does not work does not start.
Calm ==
    /\ UNCHANGED <<life, peer>>
    /\ \A c \in Calls : /\ Joins(c)' => Joins(c)
                        /\ player[c] \in {"off", "ended"} =>
                              player'[c] \in {"off", "ended"}

Grows == /\ \A c \in Calls : /\ empties[c] \in Nat /\ empties'[c] \in Nat
                             /\ empties[c] <= empties'[c]
         /\ late \subseteq late'

OrderInv == SetupInv /\ RingInv /\ DestroyInv /\ GoneInv
ControlInv == UpInv /\ PartyInv

LEMMA CalmStep ==
    ASSUME TypeOK, FifoOK', ControlInv, OrderInv, Calm, Grows,
           NEW s \in {0, 1}, NEW M, Shifted(s, M),
           \A m \in M : /\ MayFollow(m)
                        /\ m.op # "ringing" /\ m.op # "invite"
                        /\ ~IsSetup(m.op)
    PROVE  ControlInv' /\ OrderInv'
<1> USE DEF ControlInv, OrderInv
<1>0. FifoOK
  BY Types
<1>1. UpInv' /\ PartyInv'
  BY DEF Calm, UpInv, PartyInv
<1>2. Stays
  BY DEF Calm, Grows, Stays
<1>3. SetupStays(s)
  BY DEF Calm, SetupStays, SetupInv, RingInv, Is
<1>4. DestroyInv' /\ GoneInv'
  BY <1>0, <1>2, EndStep
<1>5. SetupInv' /\ RingInv'
  BY <1>0, <1>3, SetupStep
<1> QED
  BY <1>1, <1>4, <1>5

\* Most of them leave the counts alone too.
LEMMA SameGrows ==
    ASSUME TypeOK, UNCHANGED empties, late \subseteq late'
    PROVE  Grows
<1>1. \A c \in Calls : empties[c] \in Nat /\ empties[c] <= empties[c]
  BY Types DEF InvokedOK
<1> QED
  BY <1>1 DEF Grows

\* A message of another kind may always be posted.
LEMMA OtherFollows ==
    ASSUME NEW m, m.op \notin {"destroy", "empty", "add", "run"}
    PROVE  MayFollow(m)
BY DEF MayFollow

\* The messages an action that is over posts.
LEMMA Elements ==
    ASSUME NEW S, NEW p \in Seq(S), NEW q \in Seq(S), NEW j \in DOMAIN (p \o q)
    PROVE  \/ \E i \in DOMAIN p : (p \o q)[j] = p[i]
           \/ \E i \in DOMAIN q : (p \o q)[j] = q[i]
<1>1. /\ Len(p) \in Nat /\ Len(q) \in Nat /\ j \in Nat \ {0}
      /\ j <= Len(p) + Len(q) /\ DOMAIN p = 1..Len(p) /\ DOMAIN q = 1..Len(q)
      /\ (p \o q)[j] = IF j <= Len(p) THEN p[j] ELSE q[j - Len(p)]
  OBVIOUS
<1>2. CASE j <= Len(p)
  BY <1>1, <1>2
<1>3. CASE ~(j <= Len(p))
  <2>1. j - Len(p) \in 1..Len(q)
    BY <1>1, <1>3
  <2> QED
    BY <1>1, <1>3, <2>1
<1> QED
  BY <1>2, <1>3

LEMMA TerminatedIs ==
    ASSUME TypeOK, NEW c \in Calls, chain[c] # <<>>
    PROVE  /\ Terminated(c) \in Seq(Messages)
           /\ \A j \in DOMAIN Terminated(c) :
                 /\ Terminated(c)[j].op \in {"delete", "run"}
                 /\ Terminated(c)[j].call = c
<1> DEFINE d == Message("delete", c, Head(chain[c]))
           r == RunCommand(c)
           more == IF Len(chain[c]) > 1 THEN <<r>> ELSE <<>>
<1>1. /\ d.op = "delete" /\ d.call = c /\ d \in Messages
      /\ r.op = "run" /\ r.call = c /\ r \in Messages
  BY Fields, ChainHead, MessageType, RunCommandType DEF RunCommand, Op
<1>2. Terminated(c) = <<d>> \o more /\ (more = <<r>> \/ more = <<>>)
  BY DEF Terminated
<1>3. Terminated(c) \in Seq(Messages)
  BY ChainHead
<1> HIDE DEF d, r, more
<1>4. ASSUME NEW m \in Messages
      PROVE  <<m>> \in Seq(Messages) /\ \A i \in DOMAIN <<m>> : <<m>>[i] = m
  <2>1. <<m>> \in Seq(Messages) /\ DOMAIN <<m>> = 1..1
    OBVIOUS
  <2> QED
    BY <2>1
<1>7. <<>> \in Seq(Messages) /\ Len(<<>>) = 0
  OBVIOUS
<1>8. DOMAIN <<>> = {}
  OBVIOUS
<1>5. more \in Seq(Messages) /\ \A i \in DOMAIN more : more[i] = r
  BY <1>1, <1>2, <1>4, <1>7, <1>8
<1>6. \A j \in DOMAIN Terminated(c) : Terminated(c)[j] = d
                                      \/ Terminated(c)[j] = r
  BY <1>1, <1>2, <1>4, <1>5, Elements
<1> QED
  BY <1>1, <1>3, <1>6

\* A player that is notified does not start to work.
LEMMA WorkingStays ==
    ASSUME TypeOK, NEW d \in Calls, SetWorking(d)
    PROVE  \A c \in Calls : player[c] \in {"off", "ended"} =>
                               player'[c] \in {"off", "ended"}
BY Types DEF SetWorking, PlayerOK

LEMMA WebCalm ==
    ASSUME TypeOK, FlowInv, FifoOK', ControlInv, OrderInv,
           \/ PostAdd
           \/ \E c \in Calls : \/ ReleaseCall(c) \/ RonaFires(c) \/ Press(c)
                               \/ PlayerStep(c)
                               \/ \E p \in Plans : PlayOnCall(c, p)
    PROVE  ControlInv' /\ OrderInv'
<1> USE DEF playerVars, outside, callVars, chainVars, ghosts
<1>0. FifoOK /\ player \in [Calls -> {"off", "test", "get", "sleepy", "wait",
                                     "ended"}]
      /\ peer \in [Calls -> {"none", "calling", "invited", "ringing",
                             "accepted", "talking", "gone"}]
  BY Types DEF PlayerOK, OutsideOK
<1>1. CASE PostAdd
  <2> DEFINE m == Message("add", rest.call, Head(rest.left))
  <2>1. m \in Messages /\ m.op = "add" /\ m.call = rest.call
    <3>1. rest.call \in Calls /\ Head(rest.left) \in Action
      BY <1>1, Types DEF PostAdd, RestOK, FlowInv
    <3> QED
      BY <3>1, MessageType, Fields DEF Op
  <2>2. Post(m) /\ UNCHANGED <<life, peer, player, sip, empties>>
        /\ (life[m.call] \in {"over", "destroyed"} => m.call \in late')
        /\ late \subseteq late'
    BY <1>1, <2>1 DEF PostAdd
  <2>3. Calm /\ Grows
    BY <2>2, SameGrows DEF Calm, Joins
  <2>4. Shifted(0, {m})
    BY <1>0, <2>1, <2>2, PostShift
  <2>5. MayFollow(m) /\ ~IsSetup(m.op)
    BY <2>1, <2>2 DEF MayFollow, IsSetup
  <2> HIDE DEF m
  <2> QED
    BY <2>1, <2>3, <2>4, <2>5, CalmStep
<1>2. ASSUME NEW c \in Calls, ReleaseCall(c) \/ RonaFires(c) \/ Press(c)
      PROVE  ControlInv' /\ OrderInv'
  <2>1. PICK op \in {"end", "rona", "digit"} : Post(Message(op, c, NoAction))
    BY <1>2 DEF ReleaseCall, RonaFires, Press, PeerSends
  <2> DEFINE m == Message(op, c, NoAction)
  <2>2. m \in Messages /\ m.op = op
    BY MessageType, Fields DEF Op
  <2>3. UNCHANGED <<life, peer, player, sip, empties, late>>
    BY <1>0, <1>2 DEF ReleaseCall, RonaFires, Press, PeerSends
  <2>4. Calm /\ Grows
    BY <2>3, SameGrows DEF Calm, Joins
  <2>5. Shifted(0, {m})
    BY <1>0, <2>1, <2>2, PostShift
  <2>6. MayFollow(m) /\ ~IsSetup(m.op)
    BY <2>2, OtherFollows DEF IsSetup
  <2> HIDE DEF m
  <2> QED
    BY <2>2, <2>4, <2>5, <2>6, CalmStep
<1>3. ASSUME NEW c \in Calls, PlayerStep(c)
      PROVE  ControlInv' /\ OrderInv'
  <2> DEFINE m == Message("empty", c, NoAction)
  <2>1. m \in Messages /\ m.op = "empty" /\ m.call = c
    BY MessageType, Fields DEF Op
  <2>2. /\ UNCHANGED <<life, peer, sip, empties, late>>
        /\ \A d \in Calls : d # c => player'[d] = player[d]
        /\ player[c] \notin {"off", "ended"}
        /\ UNCHANGED fifo \/ Post(m)
    BY <1>0, <1>3 DEF PlayerStep, TestStopping, TakeSound, QueueRunsOut,
                      SetIdle, Moves, playerOnly
  <2>3. Calm /\ Grows
    BY <2>2, SameGrows DEF Calm, Joins
  <2>4. MayFollow(m) /\ ~IsSetup(m.op)
    BY <2>1, <2>2 DEF MayFollow, IsSetup, ControlInv, UpInv
  <2>5. CASE UNCHANGED fifo
    BY <1>0, <2>3, <2>5, SameShift, CalmStep
  <2>6. CASE Post(m)
    <3>1. Shifted(0, {m})
      BY <1>0, <2>1, <2>6, PostShift
    <3> HIDE DEF m
    <3> QED
      BY <2>1, <2>3, <2>4, <3>1, CalmStep
  <2> QED
    BY <2>2, <2>5, <2>6
<1>4. ASSUME NEW c \in Calls, NEW p \in Plans, PlayOnCall(c, p)
      PROVE  ControlInv' /\ OrderInv'
  <2>1. UNCHANGED <<life, peer, player, sip, empties, late, fifo>>
    BY <1>4 DEF PlayOnCall
  <2>2. Calm /\ Grows
    BY <2>1, SameGrows DEF Calm, Joins
  <2> QED
    BY <1>0, <2>1, <2>2, SameShift, CalmStep
<1> QED
  BY <1>1, <1>2, <1>3, <1>4

LEMMA CommandCalm ==
    ASSUME TypeOK, FlowInv, FifoOK', ControlInv, OrderInv,
           AddAction \/ RunNothing \/ RunPlay \/ RunEmptyPlay \/ RunRelease
           \/ PutSound \/ NotifySoundsEmpty \/ DeleteAction \/ OnDigit
    PROVE  ControlInv' /\ OrderInv'
<1> DEFINE c == Head(fifo).call
<1> USE DEF playerVars, outside, callVars, chainVars, ghosts
<1>0. FifoOK /\ \A d \in Calls : empties[d] \in Nat
  BY Types DEF InvokedOK
<1>1. ASSUME fifo # <<>>
      PROVE  /\ c \in Calls /\ 1 \in DOMAIN fifo /\ fifo[1] = Head(fifo)
             /\ \A k \in DOMAIN fifo : k \in Nat \ {0} /\ k # 1 => 1 < k
             /\ \A k \in DOMAIN fifo : fifo[k].hop \in Nat
  BY <1>0, <1>1, HeadAt, Indices, PhoneAssumption
<1>2. RunCommand(c).op = "run" /\ RunCommand(c).call = c
  BY Fields DEF RunCommand
<1>3. CASE AddAction
  <2> DEFINE m == RunCommand(c)
  <2>1. /\ fifo # <<>> /\ Is(1, "add", c) /\ sip = Idle
        /\ UNCHANGED <<life, peer, player, sip, empties, late>>
        /\ Done \/ (DoneThen(<<m>>) /\ Lives(c))
    BY <1>1, <1>3 DEF AddAction, Takes, Is
  <2>2. Calm /\ Grows
    BY <2>1, SameGrows DEF Calm, Joins
  <2>3. CASE Done
    BY <1>0, <2>1, <2>2, <2>3, HandledShift, CalmStep
  <2>4. CASE DoneThen(<<m>>) /\ Lives(c)
    <3>1. m \in Messages /\ m.op = "run" /\ m.call = c
      BY <1>1, <1>2, <2>1, RunCommandType
    <3>2. ASSUME NEW k \in DOMAIN fifo, Is(k, "destroy", c), c \notin late
          PROVE  fifo[k].hop <= empties[c] + 1
      <4>1. fifo[k].hop = 1
        BY <1>1, <2>1, <3>2 DEF OrderInv, DestroyInv
      <4> QED
        BY <1>0, <1>1, <2>1, <4>1
    <3>3. MayFollow(m) /\ ~IsSetup(m.op)
      BY <2>1, <2>4, <3>1, <3>2 DEF MayFollow, IsSetup, Lives
    <3>4. Shifted(1, {m})
      BY <1>0, <2>1, <2>4, <3>1, HandledShift
    <3> HIDE DEF m
    <3> QED
      BY <2>2, <3>1, <3>3, <3>4, CalmStep
  <2> QED
    BY <2>1, <2>3, <2>4
<1>4. CASE RunNothing \/ DeleteAction \/ OnDigit
  <2>1. fifo # <<>> /\ Done /\ UNCHANGED <<life, peer, player, sip, empties, late>>
    BY <1>4 DEF RunNothing, DeleteAction, OnDigit, Takes
  <2>2. Calm /\ Grows
    BY <2>1, SameGrows DEF Calm, Joins
  <2> QED
    BY <1>0, <2>1, <2>2, HandledShift, CalmStep
<1>5. CASE RunPlay
  <2>1. /\ fifo # <<>> /\ Done
        /\ UNCHANGED <<life, peer, player, empties, late>>
        /\ sip'.at # "join"
    BY <1>5 DEF RunPlay, Invokes, Takes, Idle
  <2>2. Calm /\ Grows
    BY <2>1, SameGrows DEF Calm, Joins
  <2> QED
    BY <1>0, <2>1, <2>2, HandledShift, CalmStep
<1>6. CASE RunEmptyPlay
  <2>1. /\ fifo # <<>> /\ Is(1, "run", c) /\ DoneThen(Terminated(c))
        /\ Lives(c) /\ chain[c] # <<>>
        /\ UNCHANGED <<life, peer, player, sip, late>>
        /\ empties' = [empties EXCEPT ![c] = @ + 1]
    BY <1>1, <1>6 DEF RunEmptyPlay, Invokes, Takes, Runnable, Is
  <2>2. empties'[c] = empties[c] + 1
        /\ \A d \in Calls : d # c => empties'[d] = empties[d]
    BY <1>1, <2>1, Types DEF InvokedOK
  <2>3. Calm /\ Grows
    BY <1>0, <2>1, <2>2 DEF Calm, Joins, Grows
  <2>4. ASSUME NEW k \in DOMAIN fifo, Is(k, "destroy", c), c \notin late
        PROVE  fifo[k].hop <= empties'[c] + 1
    <3>1. fifo[k].hop <= empties[c] + 2
      BY <1>1, <2>1, <2>4 DEF OrderInv, DestroyInv
    <3> QED
      BY <1>0, <1>1, <2>1, <2>2, <3>1
  <2> DEFINE ms == Terminated(c)
  <2>5. /\ ms \in Seq(Messages)
        /\ \A j \in DOMAIN ms : ms[j].op \in {"delete", "run"}
                                /\ ms[j].call = c
    BY <1>1, <2>1, TerminatedIs
  <2>6. Shifted(1, {ms[j] : j \in DOMAIN ms})
    BY <1>0, <2>1, <2>5, DoneShift
  <2> HIDE DEF ms
  <2>7. ASSUME NEW j \in DOMAIN ms
        PROVE  MayFollow(ms[j]) /\ ~IsSetup(ms[j].op)
               /\ ms[j].op # "ringing" /\ ms[j].op # "invite"
    BY <2>1, <2>4, <2>5 DEF MayFollow, IsSetup, Lives
  <2> QED
    BY <2>3, <2>6, <2>7, CalmStep
<1>7. CASE RunRelease
  <2> DEFINE m == Message("end", c, NoAction)
  <2>1. /\ fifo # <<>> /\ DoneThen(<<m>>)
        /\ UNCHANGED <<life, peer, player, sip, empties, late>>
    BY <1>7 DEF RunRelease, Invokes, Takes
  <2>2. m \in Messages /\ m.op = "end"
    BY <1>1, <2>1, MessageType, Fields DEF Op
  <2>3. Calm /\ Grows
    BY <2>1, SameGrows DEF Calm, Joins
  <2>4. MayFollow(m) /\ ~IsSetup(m.op)
    BY <2>2, OtherFollows DEF IsSetup
  <2>5. Shifted(1, {m})
    BY <1>0, <2>1, <2>2, HandledShift
  <2> HIDE DEF m
  <2> QED
    BY <2>2, <2>3, <2>4, <2>5, CalmStep
<1>8. CASE PutSound
  <2>1. /\ UNCHANGED <<life, peer, empties, late, fifo>>
        /\ SetWorking(sip.call) /\ sip.call \in Calls /\ sip'.at # "join"
    <3>1. /\ UNCHANGED <<life, peer, empties, late, fifo>>
          /\ SetWorking(sip.call) /\ sip.call \in Calls /\ sip.at = "puts"
      BY <1>8 DEF PutSound, FlowInv
    <3>2. sip'.at # "join"
      <4>1. CASE sip.left = 1
        BY <1>8, <4>1 DEF PutSound, Idle
      <4>2. CASE sip.left # 1
        BY <1>8, <3>1, <4>2, Types DEF PutSound, SipOK
      <4> QED
        BY <4>1, <4>2
    <3> QED
      BY <3>1, <3>2
  <2>2. Calm /\ Grows
    BY <2>1, SameGrows, WorkingStays DEF Calm, Joins
  <2> QED
    BY <1>0, <2>1, <2>2, SameShift, CalmStep
<1>9. CASE NotifySoundsEmpty
  <2>1. /\ fifo # <<>> /\ Is(1, "empty", c)
        /\ UNCHANGED <<life, peer, player, sip, empties, late>>
        /\ \/ Done
           \/ DoneThen(Terminated(c)) /\ chain[c] # <<>> /\ Lives(c)
    BY <1>1, <1>9 DEF NotifySoundsEmpty, Takes, Is
  <2>2. Calm /\ Grows
    BY <2>1, SameGrows DEF Calm, Joins
  <2>3. CASE Done
    BY <1>0, <2>1, <2>2, <2>3, HandledShift, CalmStep
  <2>4. CASE DoneThen(Terminated(c)) /\ chain[c] # <<>> /\ Lives(c)
    <3>1. ASSUME NEW k \in DOMAIN fifo, Is(k, "destroy", c)
          PROVE  fifo[k].hop <= empties'[c] + 1
      <4>1. fifo[k].hop = 1
        BY <1>1, <2>1, <3>1 DEF OrderInv, DestroyInv
      <4> QED
        BY <1>0, <1>1, <2>1, <4>1
    <3> DEFINE ms == Terminated(c)
    <3>2. /\ ms \in Seq(Messages)
          /\ \A j \in DOMAIN ms : ms[j].op \in {"delete", "run"}
                                  /\ ms[j].call = c
      BY <1>1, <2>1, <2>4, TerminatedIs
    <3>3. Shifted(1, {ms[j] : j \in DOMAIN ms})
      BY <1>0, <2>1, <2>4, <3>2, DoneShift
    <3> HIDE DEF ms
    <3>4. ASSUME NEW j \in DOMAIN ms
          PROVE  MayFollow(ms[j]) /\ ~IsSetup(ms[j].op)
                 /\ ms[j].op # "ringing" /\ ms[j].op # "invite"
      BY <2>1, <2>4, <3>1, <3>2 DEF MayFollow, IsSetup, Lives
    <3> QED
      BY <2>2, <3>3, <3>4, CalmStep
  <2> QED
    BY <2>1, <2>3, <2>4
<1> QED
  BY <1>3, <1>4, <1>5, <1>6, <1>7, <1>8, <1>9

-----------------------------------------------------------------------------
(* Steps that set up a call or end its session *)

Down == {"none", "over", "destroyed"}
Early == {"none", "calling", "invited"}

\* Nothing changes for the calls other than c.
Only(c) == /\ \A d \in Calls \ {c} :
                 /\ life'[d] = life[d] /\ peer'[d] = peer[d]
                 /\ player'[d] = player[d] /\ (Joins(d)' => Joins(d))
           /\ UNCHANGED <<empties, late>>

\* What has to hold of c then, whose messages past the first s stay.
Agrees(c, s) ==
    /\ life[c] = "over" => life'[c] = "over"
    /\ life'[c] = "destroyed" => life[c] = "destroyed"
    /\ Joins(c)' => life'[c] \in {"dialing", "listed", "cancelling"}
    /\ life'[c] \in Down => player'[c] \in {"off", "ended"}
    /\ peer'[c] \in {"none", "calling"} => life'[c] = "none"
    /\ peer'[c] = "invited" => life'[c] = "dialing" /\ ~Joins(c)'
    /\ peer'[c] \in Early => peer[c] \in Early
    /\ \A k \in DOMAIN fifo : k > s =>
          /\ Is(k, "ringing", c) => life'[c] = "dialing" /\ ~Joins(c)'
          /\ Is(k, "invite", c) => peer'[c] = "calling"

LEMMA SameCounts ==
    ASSUME TypeOK, UNCHANGED empties
    PROVE  \A c \in Calls : /\ empties[c] \in Nat /\ empties'[c] \in Nat
                            /\ empties[c] <= empties'[c]
<1>1. \A c \in Calls : empties[c] \in Nat /\ empties[c] <= empties[c]
  BY Types DEF InvokedOK
<1> QED
  BY <1>1

LEMMA ControlStep ==
    ASSUME ControlInv, NEW c \in Calls, Only(c), NEW s, Agrees(c, s)
    PROVE  ControlInv'
BY DEF ControlInv, UpInv, PartyInv, Only, Agrees, Down

LEMMA SessionStep ==
    ASSUME TypeOK, FifoOK', ControlInv, OrderInv,
           NEW c \in Calls, NEW s \in {0, 1}, Only(c), Agrees(c, s),
           NEW M, Shifted(s, M),
           \A m \in M : /\ MayFollow(m) /\ m.op # "ringing" /\ m.op # "invite"
                        /\ IsSetup(m.op) => peer'[m.call] \notin Early
    PROVE  ControlInv' /\ OrderInv'
<1> USE DEF OrderInv
<1>0. FifoOK
  BY Types
<1>1. Stays
  BY SameCounts DEF Stays, Only, Agrees
<1>2. SetupStays(s)
  <2>1. ASSUME NEW k \in DOMAIN fifo, NEW d \in Calls, k > s
        PROVE  /\ Is(k, "ringing", d) => life'[d] = "dialing" /\ ~Joins(d)'
               /\ Is(k, "invite", d) => peer'[d] = "calling"
    <3>1. CASE d = c
      BY <2>1, <3>1 DEF Agrees
    <3>2. CASE d # c
      BY <2>1, <3>2 DEF Only, SetupInv, RingInv, Is
    <3> QED
      BY <3>1, <3>2
  <2>2. ASSUME NEW d \in Calls, peer'[d] \in Early PROVE peer[d] \in Early
    BY <2>2 DEF Agrees, Only
  <2> QED
    BY <2>1, <2>2 DEF SetupStays, Early
<1>3. DestroyInv' /\ GoneInv'
  BY <1>0, <1>1, EndStep
<1>4. SetupInv' /\ RingInv'
  BY <1>0, <1>2, SetupStep DEF Early
<1> QED
  BY <1>3, <1>4, ControlStep

\* A call whose other party is not heard of yet has no message that rings, one
\* that is no longer dialing or calling has none of either kind.
LEMMA NoSetup ==
    ASSUME ControlInv, OrderInv, NEW c \in Calls,
           life[c] # "dialing" \/ Joins(c), peer[c] # "calling"
    PROVE  \A k \in DOMAIN fifo : ~Is(k, "ringing", c) /\ ~Is(k, "invite", c)
BY DEF OrderInv, RingInv, SetupInv, Is

\* What the first message says of the rest.
LEMMA AfterSetup ==
    ASSUME TypeOK, OrderInv, fifo # <<>>, NEW c \in Calls,
           Head(fifo).call = c, IsSetup(Head(fifo).op)
    PROVE  /\ peer[c] \notin Early
           /\ \A k \in DOMAIN fifo : k > 1 => /\ ~Is(k, "ringing", c)
                                              /\ ~Is(k, "invite", c)
<1>1. FifoOK
  BY Types
<1>2. /\ 1 \in DOMAIN fifo /\ fifo[1] = Head(fifo)
      /\ \A k \in DOMAIN fifo : k \in Nat
  BY <1>1, HeadAt, Indices
<1>3. peer[c] \notin Early
  BY <1>2 DEF OrderInv, SetupInv, Early
<1>4. ASSUME NEW k \in DOMAIN fifo, k > 1, Is(k, "ringing", c)
      PROVE  FALSE
  <2>1. k < 1
    BY <1>2, <1>4 DEF OrderInv, RingInv
  <2> QED
    BY <1>2, <1>4, <2>1
<1>5. \A k \in DOMAIN fifo : ~Is(k, "invite", c)
  BY <1>3 DEF OrderInv, SetupInv, Early, Is
<1> QED
  BY <1>3, <1>4, <1>5

\* A session that is stopped: the call stays where it is.
LEMMA TerminateOnly ==
    ASSUME TypeOK, NEW c \in Calls, Terminate(c),
           UNCHANGED <<life, peer, empties, late>>
    PROVE  /\ Only(c) /\ Joins(c)'
           /\ player[c] \in {"off", "ended"} => player'[c] \in {"off", "ended"}
<1>1. /\ \A d \in Calls \ {c} : player'[d] = player[d]
      /\ player[c] \in {"off", "ended"} => player'[c] \in {"off", "ended"}
  BY Types DEF Terminate, SetWorking, PlayerOK
<1> QED
  BY <1>1 DEF Terminate, Only, Joins

LEMMA KeepOnly ==
    ASSUME NEW c \in Calls, UNCHANGED <<life, peer, empties, late, player, sip>>
    PROVE  Only(c) /\ (Joins(c)' <=> Joins(c))
BY DEF Only, Joins

LEMMA StartPlayerOnly ==
    ASSUME TypeOK, NEW c \in Calls, StartPlayer(c)
    PROVE  /\ \A d \in Calls \ {c} : player'[d] = player[d]
           /\ player'[c] = "test"
BY Types DEF StartPlayer, PlayerOK

LEMMA SetupSteps ==
    ASSUME TypeOK, FifoOK', ControlInv, OrderInv, NEW c \in Calls,
           \/ \E p \in Plans : MakeCall(c, p)
           \/ PickUp(c) \/ Acknowledge(c) \/ HangUp(c)
    PROVE  ControlInv' /\ OrderInv'
<1> USE DEF playerVars, outside, callVars, chainVars, ghosts
<1>0. /\ FifoOK
      /\ life \in [Calls -> {"none", "dialing", "listed", "cancelling", "over",
                             "destroyed"}]
      /\ peer \in [Calls -> {"none", "calling", "invited", "ringing",
                             "accepted", "talking", "gone"}]
      /\ \A k \in DOMAIN fifo : k \in Nat \ {0}
  <2>1. FifoOK
    BY Types
  <2> QED
    BY <2>1, Types, Indices DEF CallsOK, OutsideOK
<1>1. ASSUME NEW p \in Plans, MakeCall(c, p)
      PROVE  ControlInv' /\ OrderInv'
  <2>1. /\ life[c] = "none" /\ peer[c] = "none"
        /\ life' = [life EXCEPT ![c] = "dialing"]
        /\ peer' = [peer EXCEPT ![c] = "invited"]
        /\ UNCHANGED <<fifo, sip, player, empties, late>>
    BY <1>1 DEF MakeCall, IsNew
  <2>2. ~Joins(c) /\ ~Joins(c)'
    BY <2>1 DEF ControlInv, UpInv, Joins
  <2>3. Only(c) /\ life'[c] = "dialing" /\ peer'[c] = "invited"
    BY <1>0, <2>1 DEF Only, Joins
  <2>4. \A k \in DOMAIN fifo : ~Is(k, "ringing", c) /\ ~Is(k, "invite", c)
    BY <2>1, NoSetup
  <2>5. Agrees(c, 0)
    BY <2>1, <2>2, <2>3, <2>4 DEF Agrees, Early, Down
  <2> QED
    BY <1>0, <2>1, <2>3, <2>5, SameShift, SessionStep
<1>2. CASE PickUp(c) \/ Acknowledge(c) \/ HangUp(c)
  <2>1. PICK op \in {"answer", "ack", "bye"} :
           /\ Post(Message(op, c, NoAction))
           /\ op # "ack" \/ peer[c] = "accepted"
    BY <1>2 DEF PickUp, Acknowledge, HangUp, PeerSends
  <2> DEFINE m == Message(op, c, NoAction)
  <2>2. m \in Messages /\ m.op = op /\ m.call = c
    BY MessageType, Fields DEF Op
  <2>3. /\ peer[c] \in {"invited", "ringing", "accepted", "talking"}
        /\ peer'[c] \in {"talking", "gone"}
        /\ \A d \in Calls \ {c} : peer'[d] = peer[d]
        /\ UNCHANGED <<life, player, sip, empties, late>>
    BY <1>0, <1>2 DEF PickUp, Acknowledge, HangUp, PeerSends
  <2>4. Only(c) /\ (Joins(c)' <=> Joins(c))
    BY <2>3 DEF Only, Joins
  <2>5. \A k \in DOMAIN fifo :
           /\ Is(k, "ringing", c) => life[c] = "dialing" /\ ~Joins(c)
           /\ ~Is(k, "invite", c)
    BY <2>3 DEF OrderInv, RingInv, SetupInv, Is
  <2>6. Agrees(c, 0)
    BY <2>3, <2>4, <2>5 DEF Agrees, Early, Down, ControlInv, UpInv
  <2>7. Shifted(0, {m})
    BY <1>0, <2>1, <2>2, PostShift
  <2>8. MayFollow(m)
    BY <2>2, OtherFollows
  <2> HIDE DEF m
  <2>9. peer'[m.call] \notin Early
    BY <2>2, <2>3 DEF Early
  <2> QED
    BY <2>2, <2>4, <2>6, <2>7, <2>8, <2>9, SessionStep
<1> QED
  BY <1>1, <1>2

\* The other party rings, or calls: what it sends is the first of its messages.
LEMMA FirstSteps ==
    ASSUME TypeOK, FifoOK', ControlInv, OrderInv, NEW c \in Calls,
           Ring(c) \/ CallIn(c)
    PROVE  ControlInv' /\ OrderInv'
<1> USE DEF playerVars, outside, callVars, chainVars, ghosts
<1>0. /\ FifoOK
      /\ peer \in [Calls -> {"none", "calling", "invited", "ringing",
                             "accepted", "talking", "gone"}]
      /\ Len(fifo) \in Nat /\ \A k \in DOMAIN fifo : k \in Nat /\ k <= Len(fifo)
  <2>1. FifoOK
    BY Types
  <2> QED
    BY <2>1, Types, Indices DEF OutsideOK
<1>1. PICK op \in {"ringing", "invite"} :
         /\ Post(Message(op, c, NoAction))
         /\ op = "ringing" => peer[c] = "invited" /\ peer'[c] = "ringing"
         /\ op = "invite" => /\ peer[c] = "none" /\ peer'[c] = "calling"
                             /\ life[c] = "none"
  BY <1>0 DEF Ring, CallIn, PeerSends, IsNew
<1> DEFINE m == Message(op, c, NoAction)
           n == Len(fifo) + 1
<1>2. m \in Messages /\ m.op = op /\ m.call = c
  BY MessageType, Fields DEF Op
<1>3. /\ \A d \in Calls \ {c} : peer'[d] = peer[d]
      /\ UNCHANGED <<life, player, sip, empties, late>>
  BY <1>0 DEF Ring, CallIn, PeerSends
<1>4. /\ \A k \in DOMAIN fifo' : \/ k \in DOMAIN fifo /\ fifo'[k] = fifo[k]
                                 \/ k = n /\ fifo'[k] = m
      /\ \A k \in DOMAIN fifo : k < n
  BY <1>0, <1>1, <1>2, PostAt
<1>5. peer[c] \in Early
  BY <1>1 DEF Early
<1>6. \A k \in DOMAIN fifo : fifo[k].call = c => /\ ~IsSetup(fifo[k].op)
                                                 /\ fifo[k].op # "invite"
  BY <1>1, <1>5 DEF OrderInv, SetupInv, Early
<1> HIDE DEF m, n
<1>7. ControlInv'
  BY <1>1, <1>3 DEF ControlInv, UpInv, PartyInv, Joins
<1>8. DestroyInv' /\ GoneInv'
  <2>1. Stays
    BY <1>3, SameCounts DEF Stays
  <2>2. MayFollow(m)
    BY <1>2, OtherFollows
  <2>3. Shifted(0, {m})
    BY <1>0, <1>1, <1>2, PostShift DEF m
  <2> QED
    BY <1>0, <2>1, <2>2, <2>3, EndStep DEF OrderInv
<1>9. SetupInv'
  <2>1. ASSUME NEW k \in DOMAIN fifo', NEW d \in Calls, fifo'[k].call = d
        PROVE  /\ IsSetup(fifo'[k].op) =>
                      peer'[d] \notin {"none", "calling", "invited"}
               /\ fifo'[k].op = "invite" =>
                      /\ peer'[d] = "calling"
                      /\ \A l \in DOMAIN fifo' : Is(l, "invite", d)' => k = l
    <3>1. CASE d = c
      <4>1. IsSetup(fifo'[k].op) \/ fifo'[k].op = "invite" =>
               k = n /\ fifo'[k] = m
        BY <1>4, <1>6, <2>1, <3>1
      <4>2. \A l \in DOMAIN fifo' : Is(l, "invite", d)' => l = n
        BY <1>4, <1>6, <3>1 DEF Is
      <4> QED
        BY <1>1, <1>2, <3>1, <4>1, <4>2 DEF IsSetup
    <3>2. CASE d # c
      <4>1. /\ k \in DOMAIN fifo /\ fifo'[k] = fifo[k] /\ peer'[d] = peer[d]
            /\ \A l \in DOMAIN fifo' : Is(l, "invite", d)' =>
                  l \in DOMAIN fifo /\ Is(l, "invite", d)
        BY <1>2, <1>3, <1>4, <2>1, <3>2 DEF Is
      <4> QED
        BY <2>1, <4>1 DEF OrderInv, SetupInv
    <3> QED
      BY <3>1, <3>2
  <2> QED
    BY <2>1 DEF SetupInv
<1>10. RingInv'
  <2>1. ASSUME NEW k \in DOMAIN fifo', NEW d \in Calls, Is(k, "ringing", d)'
        PROVE  /\ life'[d] = "dialing" /\ ~Joins(d)'
               /\ \A l \in DOMAIN fifo' :
                     fifo'[l].call = d /\ IsSetup(fifo'[l].op) /\ k # l =>
                         k < l /\ fifo'[l].op # "ringing"
    <3>1. CASE d = c
      <4>1. k = n /\ fifo'[k] = m /\ op = "ringing"
        BY <1>2, <1>4, <1>6, <2>1, <3>1 DEF Is, IsSetup
      <4>2. life'[d] = "dialing" /\ ~Joins(d)'
        BY <1>1, <1>3, <3>1, <4>1 DEF ControlInv, PartyInv, Joins
      <4>3. \A l \in DOMAIN fifo' :
               fifo'[l].call = d /\ IsSetup(fifo'[l].op) => l = n
        BY <1>4, <1>6, <3>1
      <4> QED
        BY <4>1, <4>2, <4>3
    <3>2. CASE d # c
      <4>1. /\ k \in DOMAIN fifo /\ Is(k, "ringing", d)
            /\ life'[d] = life[d] /\ (Joins(d)' <=> Joins(d))
            /\ \A l \in DOMAIN fifo' : fifo'[l].call = d =>
                  l \in DOMAIN fifo /\ fifo'[l] = fifo[l]
        BY <1>2, <1>3, <1>4, <2>1, <3>2 DEF Is, Joins
      <4> QED
        BY <4>1 DEF OrderInv, RingInv
    <3> QED
      BY <3>1, <3>2
  <2> QED
    BY <2>1 DEF RingInv
<1> QED
  BY <1>7, <1>8, <1>9, <1>10 DEF OrderInv

\* end() on the session of a call.
LEMMA EndOnly ==
    ASSUME TypeOK, ControlInv, OrderInv, NEW c \in Calls, sip = Idle,
           End(c) \/ (KeepOn /\ UNCHANGED life), UNCHANGED <<peer, empties, late>>
    PROVE  Only(c) /\ Agrees(c, 1)
<1>0. /\ life \in [Calls -> {"none", "dialing", "listed", "cancelling", "over",
                             "destroyed"}]
      /\ ~Joins(c)
  BY Types DEF CallsOK, Idle, Joins
<1>1. CASE KeepOn /\ UNCHANGED life
  <2>1. Only(c) /\ ~Joins(c)'
    BY <1>0, <1>1, KeepOnly DEF KeepOn
  <2>2. Agrees(c, 1)
    BY <1>1, <2>1 DEF KeepOn, Agrees, ControlInv, UpInv, PartyInv, OrderInv,
                      SetupInv, RingInv, Is, Down
  <2> QED
    BY <2>1, <2>2
<1>2. ASSUME life[c] = "listed"
      PROVE  /\ peer[c] \notin Early
             /\ \A k \in DOMAIN fifo : ~Is(k, "ringing", c)
                                       /\ ~Is(k, "invite", c)
  <2>1. peer[c] \notin Early
    BY <1>2 DEF Early, ControlInv, PartyInv
  <2> QED
    BY <1>2, <2>1, NoSetup DEF Early
<1>3. CASE Terminate(c) /\ UNCHANGED life /\ life[c] = "listed"
  <2>1. Only(c) /\ Joins(c)'
    BY <1>3, TerminateOnly
  <2> QED
    BY <1>2, <1>3, <2>1 DEF Agrees, Early, Down
<1>4. CASE KeepOn /\ life' = [life EXCEPT ![c] = "cancelling"]
           /\ life[c] = "listed"
  <2>1. Only(c) /\ life'[c] = "cancelling"
    BY <1>0, <1>4 DEF KeepOn, Only, Joins
  <2> QED
    BY <1>2, <1>4, <2>1 DEF Agrees, Early, Down
<1> QED
  BY <1>1, <1>3, <1>4 DEF End

LEMMA SessionSteps ==
    ASSUME TypeOK, FlowInv, FifoOK', ControlInv, OrderInv,
           OnRinging \/ OnAnswer \/ OnInvite \/ OnConnected \/ OnBye
           \/ EndCommand \/ RonaCommand,
           NEW c, c = Head(fifo).call
    PROVE  ControlInv' /\ OrderInv'
<1> USE DEF playerVars, outside, callVars, chainVars, ghosts, terminateFrame
<1>0. /\ FifoOK /\ fifo # <<>> /\ sip = Idle /\ UNCHANGED <<empties, late>>
      /\ life \in [Calls -> {"none", "dialing", "listed", "cancelling", "over",
                             "destroyed"}]
      /\ peer \in [Calls -> {"none", "calling", "invited", "ringing",
                             "accepted", "talking", "gone"}]
  <2>1. FifoOK /\ CallsOK /\ OutsideOK
    BY Types
  <2>2. fifo # <<>> /\ sip = Idle /\ UNCHANGED <<empties, late>>
    BY DEF OnRinging, OnAnswer, OnInvite, OnConnected, OnBye, EndCommand,
           RonaCommand, Takes
  <2> QED
    BY <2>1, <2>2 DEF CallsOK, OutsideOK
<1>1. /\ c \in Calls /\ 1 \in DOMAIN fifo /\ fifo[1] = Head(fifo)
      /\ ~Joins(c) /\ Is(1, Head(fifo).op, c)
      /\ \A k \in DOMAIN fifo : k \in Nat
  BY <1>0, HeadAt, Indices DEF Idle, Joins, Is
<1>2. Done => Shifted(1, {})
  BY <1>0, HandledShift
<1>3. CASE OnRinging
  <2>1. /\ Done /\ Head(fifo).op = "ringing"
        /\ life' = [life EXCEPT ![c] = "listed"]
        /\ UNCHANGED <<peer, player, sip>>
    BY <1>3 DEF OnRinging, Takes
  <2>2. life[c] = "dialing"
    BY <1>1, <2>1 DEF OrderInv, RingInv
  <2>3. Only(c) /\ life'[c] = "listed" /\ ~Joins(c)' /\ peer'[c] = peer[c]
    BY <1>0, <1>1, <2>1 DEF Only, Joins
  <2>4. Agrees(c, 1)
    BY <1>0, <1>1, <2>1, <2>2, <2>3, AfterSetup DEF Agrees, IsSetup, Early, Down
  <2> QED
    BY <1>1, <1>2, <2>1, <2>3, <2>4, SessionStep
<1>4. CASE OnAnswer
  <2>1. Head(fifo).op = "answer" /\ UNCHANGED <<peer, sip>>
    BY <1>4 DEF OnAnswer, Takes
  <2>2. /\ peer[c] \notin Early
        /\ \A k \in DOMAIN fifo : k > 1 => /\ ~Is(k, "ringing", c)
                                           /\ ~Is(k, "invite", c)
    BY <1>0, <1>1, <2>1, AfterSetup DEF IsSetup
  <2>3. CASE life[c] \in {"dialing", "listed"}
    <3> DEFINE m == RunCommand(c)
    <3>1. /\ life' = [life EXCEPT ![c] = "listed"] /\ StartPlayer(c)
          /\ DoneThen(<<m>>)
      BY <1>4, <2>3 DEF OnAnswer
    <3>2. Only(c) /\ life'[c] = "listed" /\ ~Joins(c)' /\ peer'[c] = peer[c]
      BY <1>0, <1>1, <2>1, <3>1, StartPlayerOnly DEF Only, Joins
    <3>3. Agrees(c, 1)
      BY <2>2, <2>3, <3>2 DEF Agrees, Early, Down
    <3>4. m \in Messages /\ m.op = "run" /\ m.call = c
      BY <1>1, RunCommandType, Fields DEF RunCommand
    <3>5. \A k \in DOMAIN fifo : ~Is(k, "destroy", c)
      BY <1>1, <2>3 DEF OrderInv, DestroyInv
    <3>6. MayFollow(m)
      BY <2>3, <3>4, <3>5 DEF MayFollow
    <3>7. Shifted(1, {m})
      BY <1>0, <3>1, <3>4, HandledShift
    <3> HIDE DEF m
    <3> QED
      BY <1>1, <3>2, <3>3, <3>4, <3>6, <3>7, SessionStep DEF IsSetup
  <2>4. CASE life[c] \notin {"dialing", "listed"}
    <3>1. Done /\ UNCHANGED <<life, player>>
      BY <1>4, <2>4 DEF OnAnswer
    <3>2. Only(c) /\ ~Joins(c)'
      BY <1>0, <1>1, <2>1, <3>1, KeepOnly
    <3>3. Agrees(c, 1)
      BY <1>1, <2>1, <2>2, <3>1, <3>2 DEF Agrees, Early, Down, ControlInv, UpInv
    <3> QED
      BY <1>1, <1>2, <3>1, <3>2, <3>3, SessionStep
  <2> QED
    BY <2>3, <2>4
<1>5. CASE OnInvite
  <2>1. /\ Done /\ Head(fifo).op = "invite" /\ UNCHANGED <<player, sip>>
        /\ \/ /\ life' = [life EXCEPT ![c] = "over"]
              /\ peer' = [peer EXCEPT ![c] = "gone"]
           \/ /\ life' = [life EXCEPT ![c] = "listed"]
              /\ peer' = [peer EXCEPT ![c] = "accepted"]
    BY <1>5 DEF OnInvite, Takes
  <2>2. /\ peer[c] = "calling"
        /\ \A k \in DOMAIN fifo : Is(k, "invite", c) => k = 1
    BY <1>1, <2>1 DEF OrderInv, SetupInv
  <2>3. life[c] = "none" /\ player[c] \in {"off", "ended"}
    BY <1>1, <2>2 DEF ControlInv, UpInv, PartyInv
  <2>4. /\ Only(c) /\ life'[c] \in {"over", "listed"} /\ ~Joins(c)'
        /\ peer'[c] \in {"gone", "accepted"} /\ player'[c] = player[c]
    BY <1>0, <1>1, <2>1 DEF Only, Joins
  <2>5. \A k \in DOMAIN fifo : ~Is(k, "ringing", c)
    BY <1>1, <2>3 DEF OrderInv, RingInv
  <2>6. Agrees(c, 1)
    BY <1>1, <2>2, <2>3, <2>4, <2>5 DEF Agrees, Early, Down
  <2> QED
    BY <1>1, <1>2, <2>1, <2>4, <2>6, SessionStep
<1>6. CASE OnConnected
  <2>1. Done /\ UNCHANGED <<life, peer>>
    BY <1>6 DEF OnConnected
  <2>2. CASE ~Listed(c) /\ KeepOn
    <3>1. Only(c) /\ Agrees(c, 1)
      BY <1>0, <1>1, <2>1, <2>2, EndOnly
    <3> QED
      BY <1>1, <1>2, <2>1, <3>1, SessionStep
  <2>3. ASSUME Listed(c)
        PROVE  /\ peer[c] \notin Early
               /\ \A k \in DOMAIN fifo : ~Is(k, "ringing", c)
                                         /\ ~Is(k, "invite", c)
    <3>1. peer[c] \notin Early
      BY <1>1, <2>3 DEF Early, ControlInv, PartyInv, Listed
    <3> QED
      BY <1>1, <2>3, <3>1, NoSetup DEF Early, Listed
  <2>4. CASE life[c] = "listed" /\ StartPlayer(c) /\ UNCHANGED sip
    <3>1. Only(c) /\ ~Joins(c)'
      BY <1>0, <1>1, <2>1, <2>4, StartPlayerOnly DEF Only, Joins
    <3>2. Agrees(c, 1)
      BY <2>1, <2>3, <2>4, <3>1 DEF Agrees, Early, Down, Listed
    <3> QED
      BY <1>1, <1>2, <2>1, <3>1, <3>2, SessionStep
  <2>5. CASE life[c] = "cancelling" /\ Terminate(c)
    <3>1. Only(c) /\ Joins(c)'
      BY <1>0, <1>1, <2>1, <2>5, TerminateOnly
    <3>2. Agrees(c, 1)
      BY <2>1, <2>3, <2>5, <3>1 DEF Agrees, Early, Down, Listed
    <3> QED
      BY <1>1, <1>2, <2>1, <3>1, <3>2, SessionStep
  <2> QED
    BY <1>6, <2>2, <2>4, <2>5 DEF OnConnected
<1>7. CASE OnBye
  <2>1. Done /\ Head(fifo).op = "bye" /\ UNCHANGED <<life, peer>>
    BY <1>7 DEF OnBye, Takes
  <2>2. CASE life[c] \in {"dialing", "listed", "cancelling"} /\ Terminate(c)
    <3>1. Only(c) /\ Joins(c)'
      BY <1>0, <1>1, <2>1, <2>2, TerminateOnly
    <3>2. Agrees(c, 1)
      BY <1>0, <1>1, <2>1, <2>2, <3>1, AfterSetup
         DEF Agrees, Early, Down, IsSetup
    <3> QED
      BY <1>1, <1>2, <2>1, <3>1, <3>2, SessionStep
  <2>3. CASE KeepOn
    <3>1. Only(c) /\ Agrees(c, 1)
      BY <1>0, <1>1, <2>1, <2>3, EndOnly
    <3> QED
      BY <1>1, <1>2, <2>1, <3>1, SessionStep
  <2> QED
    BY <1>7, <2>2, <2>3 DEF OnBye
<1>8. CASE EndCommand \/ RonaCommand
  <2>1. Done /\ UNCHANGED peer /\ (End(c) \/ (KeepOn /\ UNCHANGED life))
    BY <1>8 DEF EndCommand, RonaCommand
  <2>2. Only(c) /\ Agrees(c, 1)
    BY <1>0, <1>1, <2>1, EndOnly
  <2> QED
    BY <1>1, <1>2, <2>1, <2>2, SessionStep
<1> QED
  BY <1>3, <1>4, <1>5, <1>6, <1>7, <1>8

\* The player has ended: so has the call.
LEMMA TerminatedStep ==
    ASSUME TypeOK, FlowInv, FifoOK', ControlInv, OrderInv, OnCallTerminated,
           NEW c, c = sip.call
    PROVE  ControlInv' /\ OrderInv'
<1> USE DEF playerVars, outside, callVars, chainVars, ghosts
<1>1. /\ c \in Calls /\ Joins(c) /\ player[c] \in {"off", "ended"}
      /\ life' = [life EXCEPT ![c] = "over"] /\ sip' = Idle
      /\ UNCHANGED <<fifo, peer, player, empties, late>>
  BY DEF OnCallTerminated, Joined, FlowInv, Joins
<1>2. life[c] \in {"dialing", "listed", "cancelling"}
  BY <1>1 DEF ControlInv, UpInv
<1>3. /\ Only(c) /\ life'[c] = "over" /\ ~Joins(c)'
      /\ player'[c] = player[c] /\ peer'[c] = peer[c]
  BY <1>1, Types DEF Only, Joins, Idle, CallsOK
<1>4. peer[c] \notin Early
  BY <1>1, <1>2 DEF Early, ControlInv, PartyInv
<1>5. \A k \in DOMAIN fifo : ~Is(k, "ringing", c) /\ ~Is(k, "invite", c)
  BY <1>1, <1>4, NoSetup DEF Early
<1>6. Agrees(c, 0)
  BY <1>1, <1>2, <1>3, <1>4, <1>5 DEF Agrees, Early, Down
<1>7. Shifted(0, {})
  BY <1>1, SameShift, Types
<1> QED
  BY <1>1, <1>3, <1>6, <1>7, SessionStep

-----------------------------------------------------------------------------
(* Steps that destroy a call *)

\* None of these touches a call that is set up, or any player.
LEMMA DestroyCalm ==
    ASSUME TypeOK, FifoOK', ControlInv, OrderInv, Calm, NEW s \in {0, 1},
           NEW m, Shifted(s, {m}), m.op = "destroy"
    PROVE  ControlInv' /\ SetupInv' /\ RingInv'
<1>1. UpInv' /\ PartyInv'
  BY DEF Calm, ControlInv, UpInv, PartyInv
<1>2. SetupStays(s)
  BY DEF Calm, SetupStays, OrderInv, SetupInv, RingInv, Is
<1>3. SetupInv' /\ RingInv'
  BY <1>2, Types, SetupStep DEF OrderInv, IsSetup
<1> QED
  BY <1>1, <1>3 DEF ControlInv

LEMMA PostDestroyStep ==
    ASSUME TypeOK, FifoOK', ControlInv, OrderInv, NEW c \in Calls, PostDestroy(c)
    PROVE  ControlInv' /\ OrderInv'
<1> USE DEF playerVars, outside, callVars, chainVars, ghosts
<1> DEFINE m == [Message("destroy", c, NoAction) EXCEPT !.hop = 1]
           n == Len(fifo) + 1
<1>0. FifoOK /\ Hops \in Nat \ {0}
  BY Types, PhoneAssumption
<1>1. m \in Messages /\ m.op = "destroy" /\ m.call = c /\ m.hop = 1
  BY <1>0 DEF Message, Messages, Op
<1>2. /\ life[c] = "over" /\ Post(m)
      /\ \A k \in DOMAIN fifo : ~Is(k, "destroy", c)
      /\ UNCHANGED <<life, peer, player, sip, empties, late>>
  BY DEF PostDestroy, Is
<1>3. Shifted(0, {m})
  BY <1>0, <1>1, <1>2, PostShift
<1>4. /\ \A k \in DOMAIN fifo' : \/ k \in DOMAIN fifo /\ fifo'[k] = fifo[k]
                                 \/ k = n /\ fifo'[k] = m
      /\ \A k \in DOMAIN fifo : k \in Nat /\ k < n
      /\ n \in Nat
  BY <1>0, <1>1, <1>2, PostAt
<1> HIDE DEF m, n
<1>5. ControlInv' /\ SetupInv' /\ RingInv'
  BY <1>1, <1>2, <1>3, DestroyCalm DEF Calm, Joins
<1>6. DestroyInv'
  <2>1. ASSUME NEW k \in DOMAIN fifo', NEW d \in Calls, Is(k, "destroy", d)'
        PROVE  /\ life'[d] = "over" /\ fifo'[k].hop \in 1..Hops
               /\ \A l \in DOMAIN fifo' :
                     /\ Is(l, "destroy", d)' => k = l
                     /\ Is(l, "empty", d)' => fifo'[k].hop = 1 /\ l < k
                     /\ d \notin late' /\ Is(l, "add", d)' =>
                           fifo'[k].hop = 1 /\ l < k
                     /\ d \notin late' /\ Is(l, "run", d)' =>
                           /\ fifo'[k].hop <= empties'[d] + 2
                           /\ k < l => fifo'[k].hop <= empties'[d] + 1
    <3>1. CASE d = c
      <4>1. k = n /\ fifo'[k] = m
        BY <1>2, <1>4, <2>1, <3>1 DEF Is
      <4>2. 1 \in 1..Hops /\ empties'[d] \in Nat
        BY <1>0, <1>2, SameCounts
      <4>3. 1 <= empties'[d] + 2 /\ 1 <= empties'[d] + 1
        BY <4>2
      <4>4. \A l \in DOMAIN fifo' : l = k \/ (l < k /\ ~(k < l))
        BY <1>4, <4>1
      <4>5. \A l \in DOMAIN fifo' : Is(l, "destroy", d)' => l = k
        BY <1>2, <1>4, <3>1, <4>1 DEF Is
      <4>6. ~Is(k, "empty", d)' /\ ~Is(k, "add", d)' /\ ~Is(k, "run", d)'
        BY <1>1, <4>1 DEF Is
      <4> QED
        BY <1>1, <1>2, <3>1, <4>1, <4>2, <4>3, <4>4, <4>5, <4>6 DEF Is
    <3>2. CASE d # c
      <4>1. \A l \in DOMAIN fifo' : fifo'[l].call = d =>
                l \in DOMAIN fifo /\ fifo'[l] = fifo[l]
        BY <1>1, <1>4, <3>2
      <4>2. k \in DOMAIN fifo /\ fifo'[k] = fifo[k]
        BY <2>1, <4>1 DEF Is
      <4> QED
        BY <1>2, <2>1, <4>1, <4>2 DEF OrderInv, DestroyInv, Is
    <3> QED
      BY <3>1, <3>2
  <2> QED
    BY <2>1 DEF DestroyInv
<1>7. GoneInv'
  <2>1. ASSUME NEW k \in DOMAIN fifo', NEW d \in Calls, fifo'[k].call = d,
               life'[d] = "destroyed"
        PROVE  k \in DOMAIN fifo /\ fifo'[k] = fifo[k]
    BY <1>1, <1>2, <1>4, <2>1
  <2> QED
    BY <1>2, <2>1 DEF OrderInv, GoneInv
<1> QED
  BY <1>5, <1>6, <1>7 DEF OrderInv

\* What the first message says when it destroys a call.
LEMMA AfterDestroy ==
    ASSUME TypeOK, OrderInv, fifo # <<>>, NEW c \in Calls,
           Head(fifo).call = c, Head(fifo).op = "destroy"
    PROVE  /\ life[c] = "over" /\ Head(fifo).hop \in 1..Hops
           /\ \A k \in DOMAIN fifo : k > 1 =>
                 /\ ~Is(k, "destroy", c) /\ ~Is(k, "empty", c)
                 /\ c \notin late => /\ ~Is(k, "add", c)
                                     /\ Is(k, "run", c) =>
                                           Head(fifo).hop <= empties[c] + 1
<1>1. FifoOK
  BY Types
<1>2. /\ 1 \in DOMAIN fifo /\ fifo[1] = Head(fifo) /\ Is(1, "destroy", c)
      /\ \A k \in DOMAIN fifo : k \in Nat
  BY <1>1, HeadAt, Indices DEF Is
<1> QED
  BY <1>2 DEF OrderInv, DestroyInv

LEMMA HopStep ==
    ASSUME TypeOK, FifoOK', ControlInv, OrderInv, DestroyHop,
           NEW c \in Calls, c = Head(fifo).call, NEW h, h = Head(fifo).hop
    PROVE  ControlInv' /\ OrderInv'
<1> USE DEF playerVars, outside, callVars, chainVars, ghosts
<1> DEFINE m == [Head(fifo) EXCEPT !.hop = @ + 1]
           n == Len(fifo)
<1>1. /\ fifo # <<>> /\ Head(fifo).op = "destroy" /\ Head(fifo).hop < Hops
      /\ DoneThen(<<m>>) /\ UNCHANGED <<life, peer, player, sip, empties, late>>
  BY DEF DestroyHop, Takes
<1>2. FifoOK /\ Hops \in Nat \ {0} /\ Head(fifo) \in Messages
  <2>1. FifoOK
    BY Types
  <2> QED
    BY <1>1, <2>1, HeadAt, Indices, PhoneAssumption
<1>3. /\ h \in 1..Hops /\ h < Hops
      /\ \A k \in DOMAIN fifo : k > 1 =>
            /\ ~Is(k, "destroy", c) /\ ~Is(k, "empty", c)
            /\ c \notin late => /\ ~Is(k, "add", c)
                                /\ Is(k, "run", c) => h <= empties[c] + 1
      /\ life[c] = "over"
  BY <1>1, AfterDestroy
<1>4. m \in Messages /\ m.op = "destroy" /\ m.call = c /\ m.hop = h + 1
      /\ h + 1 \in 1..Hops
  BY <1>1, <1>2, <1>3 DEF Messages
<1>5. Shifted(1, {m})
  BY <1>1, <1>2, <1>4, HandledShift
<1>6. ASSUME NEW k \in DOMAIN fifo'
      PROVE  /\ \/ k + 1 \in DOMAIN fifo /\ fifo'[k] = fifo[k + 1] /\ k < n
                \/ k = n /\ fifo'[k] = m
             /\ k \in Nat /\ k + 1 > 1
  <2>1. <<m>> \in Seq(Messages) /\ DOMAIN <<m>> = 1..1 /\ <<m>>[1] = m
    BY <1>4
  <2> HIDE DEF m
  <2>2. k \in Nat /\ n \in Nat /\ k + 1 > 1
    BY <1>2, <1>5, Indices DEF Shifted, FifoOK
  <2>3. CASE k < Len(fifo) /\ k + 1 \in DOMAIN fifo /\ fifo'[k] = fifo[k + 1]
    BY <2>2, <2>3
  <2>4. CASE k >= Len(fifo) /\ k + 1 - Len(fifo) \in DOMAIN <<m>>
             /\ fifo'[k] = <<m>>[k + 1 - Len(fifo)]
    BY <2>1, <2>2, <2>4
  <2> QED
    BY <1>1, <1>2, <1>6, <2>1, <2>3, <2>4, DoneAt
<1>7. n \in Nat
  BY <1>2, Indices
<1> HIDE DEF m, n
<1>8. ControlInv' /\ SetupInv' /\ RingInv'
  BY <1>1, <1>4, <1>5, DestroyCalm DEF Calm, Joins
<1>9. DestroyInv'
  <2>1. ASSUME NEW k \in DOMAIN fifo', NEW d \in Calls, Is(k, "destroy", d)'
        PROVE  /\ life'[d] = "over" /\ fifo'[k].hop \in 1..Hops
               /\ \A l \in DOMAIN fifo' :
                     /\ Is(l, "destroy", d)' => k = l
                     /\ Is(l, "empty", d)' => fifo'[k].hop = 1 /\ l < k
                     /\ d \notin late' /\ Is(l, "add", d)' =>
                           fifo'[k].hop = 1 /\ l < k
                     /\ d \notin late' /\ Is(l, "run", d)' =>
                           /\ fifo'[k].hop <= empties'[d] + 2
                           /\ k < l => fifo'[k].hop <= empties'[d] + 1
    <3>1. CASE d = c
      <4>1. k = n /\ fifo'[k] = m
        BY <1>3, <1>6, <2>1, <3>1 DEF Is
      <4>2. empties'[c] \in Nat /\ empties'[c] = empties[c]
        BY <1>1, SameCounts
      <4>3. ASSUME NEW l \in DOMAIN fifo'
            PROVE  /\ Is(l, "destroy", c)' => k = l
                   /\ ~Is(l, "empty", c)' /\ ~(k < l)
                   /\ c \notin late' => ~Is(l, "add", c)'
                   /\ c \notin late' /\ Is(l, "run", c)' =>
                         h + 1 <= empties'[c] + 2
        <5>1. CASE l + 1 \in DOMAIN fifo /\ fifo'[l] = fifo[l + 1] /\ l < n
          <6>1. \A op \in Op : Is(l, op, c)' => Is(l + 1, op, c)
            BY <5>1 DEF Is
          <6>2. ~(k < l) /\ l + 1 > 1
            BY <1>6, <1>7, <4>1, <5>1
          <6>3. {"destroy", "empty", "add", "run"} \subseteq Op
            BY DEF Op
          <6>4. h <= empties'[c] + 1 => h + 1 <= empties'[c] + 2
            BY <1>3, <4>2
          <6> QED
            BY <1>1, <1>3, <4>2, <5>1, <6>1, <6>2, <6>3, <6>4
        <5>2. CASE l = n /\ fifo'[l] = m
          BY <1>4, <1>7, <4>1, <5>2 DEF Is
        <5> QED
          BY <1>6, <5>1, <5>2
      <4> QED
        BY <1>1, <1>3, <1>4, <3>1, <4>1, <4>3
    <3>2. CASE d # c
      <4>1. \A l \in DOMAIN fifo' : fifo'[l].call = d =>
                l + 1 \in DOMAIN fifo /\ fifo'[l] = fifo[l + 1]
        BY <1>4, <1>6, <3>2
      <4>2. k + 1 \in DOMAIN fifo /\ fifo'[k] = fifo[k + 1]
            /\ Is(k + 1, "destroy", d)
        BY <2>1, <4>1 DEF Is
      <4>3. /\ life[d] = "over" /\ fifo[k + 1].hop \in 1..Hops
            /\ \A l \in DOMAIN fifo :
                  /\ Is(l, "destroy", d) => k + 1 = l
                  /\ Is(l, "empty", d) => fifo[k + 1].hop = 1 /\ l < k + 1
                  /\ d \notin late /\ Is(l, "add", d) =>
                        fifo[k + 1].hop = 1 /\ l < k + 1
                  /\ d \notin late /\ Is(l, "run", d) =>
                        /\ fifo[k + 1].hop <= empties[d] + 2
                        /\ k + 1 < l => fifo[k + 1].hop <= empties[d] + 1
        BY <4>2 DEF OrderInv, DestroyInv
      <4>4. ASSUME NEW l \in DOMAIN fifo', fifo'[l].call = d
            PROVE  /\ Is(l, "destroy", d)' => k = l
                   /\ Is(l, "empty", d)' => fifo'[k].hop = 1 /\ l < k
                   /\ d \notin late' /\ Is(l, "add", d)' =>
                         fifo'[k].hop = 1 /\ l < k
                   /\ d \notin late' /\ Is(l, "run", d)' =>
                         /\ fifo'[k].hop <= empties'[d] + 2
                         /\ k < l => fifo'[k].hop <= empties'[d] + 1
        <5>1. l + 1 \in DOMAIN fifo /\ fifo'[l] = fifo[l + 1]
          BY <4>1, <4>4
        <5>2. \A op \in Op : Is(l, op, d)' => Is(l + 1, op, d)
          BY <5>1 DEF Is
        <5>3. {"destroy", "empty", "add", "run"} \subseteq Op
          BY DEF Op
        <5>4. /\ k + 1 = l + 1 => k = l
              /\ l + 1 < k + 1 => l < k
              /\ k < l => k + 1 < l + 1
          BY <1>6
        <5> QED
          BY <1>1, <4>2, <4>3, <5>1, <5>2, <5>3, <5>4
      <4> QED
        BY <1>1, <4>2, <4>3, <4>4 DEF Is
    <3> QED
      BY <3>1, <3>2
  <2> QED
    BY <2>1 DEF DestroyInv
<1>10. GoneInv'
  <2>1. ASSUME NEW k \in DOMAIN fifo', NEW d \in Calls, fifo'[k].call = d,
               life'[d] = "destroyed"
        PROVE  k + 1 \in DOMAIN fifo /\ fifo'[k] = fifo[k + 1]
    BY <1>1, <1>3, <1>4, <1>6, <2>1
  <2> QED
    BY <1>1, <2>1 DEF OrderInv, GoneInv
<1> QED
  BY <1>8, <1>9, <1>10 DEF OrderInv

LEMMA DestroyStep ==
    ASSUME TypeOK, FifoOK', ControlInv, OrderInv, DestroyCall,
           NEW c \in Calls, c = Head(fifo).call
    PROVE  ControlInv' /\ OrderInv'
<1> USE DEF playerVars, outside, callVars, chainVars, ghosts
<1> DEFINE ms == [i \in DOMAIN chain[c] |-> Message("delete", c, chain[c][i])]
           M == {ms[j] : j \in DOMAIN ms}
<1>1. /\ fifo # <<>> /\ Head(fifo).op = "destroy" /\ Head(fifo).hop = Hops
      /\ DoneThen(ms) /\ life' = [life EXCEPT ![c] = "destroyed"] /\ sip = Idle
      /\ UNCHANGED <<peer, player, sip, empties, late>>
  BY DEF DestroyCall, Takes
<1>2. FifoOK /\ \A k \in DOMAIN fifo : k \in Nat \ {0}
  <2>1. FifoOK
    BY Types
  <2> QED
    BY <2>1, Indices
<1>3. /\ life[c] = "over" /\ life'[c] = "destroyed"
      /\ \A d \in Calls \ {c} : life'[d] = life[d]
      /\ \A k \in DOMAIN fifo : k > 1 =>
            /\ ~Is(k, "destroy", c) /\ ~Is(k, "empty", c)
            /\ c \notin late => /\ ~Is(k, "add", c)
                                /\ Is(k, "run", c) => Hops <= empties[c] + 1
  BY <1>1, AfterDestroy, Types DEF CallsOK
<1>4. ms \in Seq(Messages)
      /\ \A j \in DOMAIN ms : ms[j].op = "delete" /\ ms[j].call = c
  <2>1. chain[c] \in Seq(Action) /\ \A i \in DOMAIN chain[c] : chain[c][i] \in Action
    BY Types, ElementType DEF ChainOK
  <2>2. \A i \in DOMAIN chain[c] :
           /\ Message("delete", c, chain[c][i]) \in Messages
           /\ Message("delete", c, chain[c][i]).op = "delete"
           /\ Message("delete", c, chain[c][i]).call = c
    BY <2>1, MessageType, Fields DEF Op
  <2>3. Len(chain[c]) \in Nat /\ DOMAIN chain[c] = 1..Len(chain[c])
    BY <2>1
  <2> QED
    BY <2>2, <2>3
<1>5. Shifted(1, M)
  BY <1>1, <1>2, <1>4, DoneShift
<1> HIDE DEF ms
<1>6. \A m \in M : m.op = "delete" /\ m.call = c
  BY <1>4
<1> HIDE DEF M
<1>7. ~Joins(c)' /\ peer'[c] \notin Early /\ \A d \in Calls : Joins(d)' <=> Joins(d)
  BY <1>1, <1>3 DEF Joins, Idle, Early, ControlInv, PartyInv
<1>8. ControlInv'
  BY <1>1, <1>3, <1>7 DEF ControlInv, UpInv, PartyInv, Early
<1>9. SetupInv' /\ RingInv'
  <2>1. \A k \in DOMAIN fifo : ~Is(k, "ringing", c) /\ ~Is(k, "invite", c)
    BY <1>1, <1>3, <1>7, NoSetup DEF Early
  <2>2. SetupStays(1)
    BY <1>1, <1>3, <1>7, <2>1 DEF SetupStays, OrderInv, SetupInv, RingInv, Is
  <2>3. FifoOK /\ SetupInv /\ RingInv
    BY <1>2 DEF OrderInv
  <2>4. \A m \in M : m.op \notin {"ringing", "invite"} /\ ~IsSetup(m.op)
    BY <1>6 DEF IsSetup
  <2> QED
    BY <1>5, <2>2, <2>3, <2>4, SetupStep
<1>10. ASSUME NEW k \in DOMAIN fifo', fifo'[k].op # "delete"
       PROVE  /\ k \in Nat /\ k + 1 > 1
              /\ k + 1 \in DOMAIN fifo /\ fifo'[k] = fifo[k + 1]
  <2>1. k \in Nat /\ k + 1 \in DOMAIN fifo /\ fifo'[k] = fifo[k + 1]
    BY <1>5, <1>6, <1>10 DEF Shifted
  <2>2. k \in Nat \ {0}
    BY <1>10 DEF FifoOK
  <2> QED
    BY <2>1, <2>2
<1>11. DestroyInv'
  <2>1. ASSUME NEW k \in DOMAIN fifo', NEW d \in Calls, Is(k, "destroy", d)'
        PROVE  /\ life'[d] = "over" /\ fifo'[k].hop \in 1..Hops
               /\ \A l \in DOMAIN fifo' :
                     /\ Is(l, "destroy", d)' => k = l
                     /\ Is(l, "empty", d)' => fifo'[k].hop = 1 /\ l < k
                     /\ d \notin late' /\ Is(l, "add", d)' =>
                           fifo'[k].hop = 1 /\ l < k
                     /\ d \notin late' /\ Is(l, "run", d)' =>
                           /\ fifo'[k].hop <= empties'[d] + 2
                           /\ k < l => fifo'[k].hop <= empties'[d] + 1
    <3>1. /\ k \in Nat /\ k + 1 > 1 /\ k + 1 \in DOMAIN fifo
          /\ fifo'[k] = fifo[k + 1] /\ Is(k + 1, "destroy", d)
      BY <1>10, <2>1 DEF Is
    <3>2. d # c
      BY <1>3, <3>1
    <3>3. /\ life[d] = "over" /\ fifo[k + 1].hop \in 1..Hops
          /\ \A l \in DOMAIN fifo :
                /\ Is(l, "destroy", d) => k + 1 = l
                /\ Is(l, "empty", d) => fifo[k + 1].hop = 1 /\ l < k + 1
                /\ d \notin late /\ Is(l, "add", d) =>
                      fifo[k + 1].hop = 1 /\ l < k + 1
                /\ d \notin late /\ Is(l, "run", d) =>
                      /\ fifo[k + 1].hop <= empties[d] + 2
                      /\ k + 1 < l => fifo[k + 1].hop <= empties[d] + 1
      BY <3>1 DEF OrderInv, DestroyInv
    <3>4. ASSUME NEW l \in DOMAIN fifo', fifo'[l].op # "delete"
          PROVE  /\ Is(l, "destroy", d)' => k = l
                 /\ Is(l, "empty", d)' => fifo'[k].hop = 1 /\ l < k
                 /\ d \notin late' /\ Is(l, "add", d)' =>
                       fifo'[k].hop = 1 /\ l < k
                 /\ d \notin late' /\ Is(l, "run", d)' =>
                       /\ fifo'[k].hop <= empties'[d] + 2
                       /\ k < l => fifo'[k].hop <= empties'[d] + 1
      <4>1. l \in Nat /\ l + 1 \in DOMAIN fifo /\ fifo'[l] = fifo[l + 1]
        BY <1>10, <3>4
      <4>2. \A op \in Op : Is(l, op, d)' => Is(l + 1, op, d)
        BY <4>1 DEF Is
      <4>3. {"destroy", "empty", "add", "run"} \subseteq Op
        BY DEF Op
      <4>4. /\ k + 1 = l + 1 => k = l
            /\ l + 1 < k + 1 => l < k
            /\ k < l => k + 1 < l + 1
        BY <3>1, <4>1
      <4> QED
        BY <1>1, <3>1, <3>3, <4>1, <4>2, <4>3, <4>4
    <3> QED
      BY <1>1, <1>3, <3>1, <3>2, <3>3, <3>4 DEF Is
  <2> QED
    BY <2>1 DEF DestroyInv
<1>12. GoneInv'
  <2>1. ASSUME NEW k \in DOMAIN fifo', NEW d \in Calls, fifo'[k].call = d,
               life'[d] = "destroyed"
        PROVE  /\ fifo'[k].op # "empty"
               /\ d \notin late' =>
                     /\ fifo'[k].op # "add"
                     /\ fifo'[k].op = "run" => Hops <= empties'[d] + 1
    <3>1. CASE fifo'[k].op = "delete"
      BY <3>1
    <3>2. CASE fifo'[k].op # "delete"
      <4>1. k + 1 \in DOMAIN fifo /\ k + 1 > 1 /\ fifo'[k] = fifo[k + 1]
        BY <1>10, <3>2
      <4>2. CASE d = c
        BY <1>1, <1>3, <2>1, <4>1, <4>2 DEF Is
      <4>3. CASE d # c
        BY <1>1, <1>3, <2>1, <4>1, <4>3 DEF OrderInv, GoneInv
      <4> QED
        BY <4>2, <4>3
    <3> QED
      BY <3>1, <3>2
  <2> QED
    BY <2>1 DEF GoneInv
<1> QED
  BY <1>8, <1>9, <1>11, <1>12 DEF OrderInv

-----------------------------------------------------------------------------
(* What reaches a call that was deleted *)

\* The counts that excuse such a call only grow.
LEMMA NextGrows ==
    ASSUME TypeOK, [Next]_vars
    PROVE  Grows
<1> USE DEF playerVars, outside, callVars, chainVars, ghosts
<1>1. CASE RunEmptyPlay
  <2>1. late' = late /\ \E c : empties' = [empties EXCEPT ![c] = @ + 1]
    BY <1>1 DEF RunEmptyPlay, Invokes
  <2> QED
    BY <2>1, Types DEF InvokedOK, Grows
<1>2. CASE WebThread
  BY <1>2, SameGrows DEF WebThread, ReleaseCall, MakeCall, PlayOnCall, PostAdd
<1>3. CASE Outside
  BY <1>3, SameGrows DEF Outside, Ring, PickUp, Acknowledge, HangUp, Press,
                         CallIn, RonaFires, PeerSends
<1>4. ASSUME NEW c \in Calls, PlayerStep(c) \/ PostDestroy(c)
      PROVE  Grows
  BY <1>4, SameGrows DEF PlayerStep, TestStopping, TakeSound, QueueRunsOut,
                         SetIdle, playerOnly, PostDestroy
<1>5. CASE AddAction \/ RunNothing \/ RunPlay \/ RunRelease
  BY <1>5, SameGrows DEF AddAction, RunNothing, RunPlay, RunRelease, Invokes
<1>6. CASE PutSound \/ NotifySoundsEmpty \/ DeleteAction \/ OnDigit
  BY <1>6, SameGrows DEF PutSound, NotifySoundsEmpty, DeleteAction, OnDigit
<1>7. CASE OnRinging \/ OnAnswer \/ OnInvite \/ OnConnected
           \/ OnCallTerminated \/ DestroyHop \/ DestroyCall
  BY <1>7, SameGrows DEF OnRinging, OnAnswer, OnInvite, OnConnected,
                         OnCallTerminated, DestroyHop, DestroyCall
<1>8. CASE OnBye \/ EndCommand \/ RonaCommand
  BY <1>8, SameGrows DEF OnBye, EndCommand, RonaCommand, terminateFrame
<1>9. CASE UNCHANGED vars
  BY <1>9, SameGrows DEF vars
<1> QED
  BY <1>1, <1>2, <1>3, <1>4, <1>5, <1>6, <1>7, <1>8, <1>9 DEF Next, SipThread

\* Only the commands of a chain and of its player use the call.
LEMMA DeadUses ==
    ASSUME [Next]_vars
    PROVE  \/ UNCHANGED deadUse
           \/ /\ fifo # <<>> /\ Head(fifo).op \in {"add", "run", "empty"}
              /\ life[Head(fifo).call] = "destroyed"
              /\ deadUse' = deadUse \cup {Head(fifo).call}
<1> USE DEF playerVars, outside, callVars, chainVars, ghosts
<1>1. CASE AddAction \/ RunNothing \/ NotifySoundsEmpty
  BY <1>1 DEF AddAction, RunNothing, NotifySoundsEmpty, Takes, Lives
<1>2. CASE WebThread
  BY <1>2 DEF WebThread, ReleaseCall, MakeCall, PlayOnCall, PostAdd
<1>3. CASE Outside
  BY <1>3 DEF Outside, Ring, PickUp, Acknowledge, HangUp, Press, CallIn,
              RonaFires, PeerSends
<1>4. ASSUME NEW c \in Calls, PlayerStep(c) \/ PostDestroy(c)
      PROVE  UNCHANGED deadUse
  BY <1>4 DEF PlayerStep, TestStopping, TakeSound, QueueRunsOut, SetIdle,
              playerOnly, PostDestroy
<1>5. CASE RunPlay \/ RunEmptyPlay \/ RunRelease
  BY <1>5 DEF RunPlay, RunEmptyPlay, RunRelease
<1>6. CASE PutSound \/ DeleteAction \/ OnDigit
  BY <1>6 DEF PutSound, DeleteAction, OnDigit
<1>7. CASE OnRinging \/ OnAnswer \/ OnInvite \/ OnConnected
           \/ OnCallTerminated \/ DestroyHop \/ DestroyCall
  BY <1>7 DEF OnRinging, OnAnswer, OnInvite, OnConnected, OnCallTerminated,
              DestroyHop, DestroyCall
<1>8. CASE OnBye \/ EndCommand \/ RonaCommand
  BY <1>8 DEF OnBye, EndCommand, RonaCommand, terminateFrame
<1>9. CASE UNCHANGED vars
  BY <1>9 DEF vars
<1> QED
  BY <1>1, <1>2, <1>3, <1>4, <1>5, <1>6, <1>7, <1>8, <1>9 DEF Next, SipThread

LEMMA DeadStep ==
    ASSUME TypeOK, OrderInv, DeadUseOnlyLate, [Next]_vars
    PROVE  DeadUseOnlyLate'
<1> DEFINE Excused(c) == c \in late \/ empties[c] >= Hops - 1
<1>1. Hops \in Nat /\ deadUse \subseteq Calls /\ Grows
  BY Types, NextGrows, PhoneAssumption DEF GhostsOK
<1>2. ASSUME NEW c \in Calls, Excused(c)
      PROVE  c \in late' \/ empties'[c] >= Hops - 1
  BY <1>1, <1>2 DEF Grows
<1>3. ASSUME NEW c, fifo # <<>>, Head(fifo).call = c,
             Head(fifo).op \in {"add", "run", "empty"}, life[c] = "destroyed"
      PROVE  c \in Calls /\ Excused(c)
  <2>1. FifoOK
    BY Types
  <2>2. /\ c \in Calls /\ empties[c] \in Nat
        /\ c \notin late => Head(fifo).op = "run" /\ Hops <= empties[c] + 1
    BY <1>1, <1>3, <2>1, HeadAt DEF OrderInv, GoneInv, Grows
  <2> QED
    BY <1>1, <2>2
<1>4. \A c \in deadUse : c \in Calls /\ Excused(c)
  BY <1>1 DEF DeadUseOnlyLate
<1> QED
  BY <1>2, <1>3, <1>4, DeadUses DEF DeadUseOnlyLate

-----------------------------------------------------------------------------

LEMMA InitDeleted == Init => DeletedInv
<1> SUFFICES ASSUME Init PROVE DeletedInv
  OBVIOUS
<1>1. /\ fifo = <<>> /\ DOMAIN fifo = {} /\ sip = Idle /\ deadUse = {}
      /\ \A c \in Calls : life[c] = "none" /\ peer[c] = "none"
                          /\ player[c] = "off"
  BY DEF Init
<1> QED
  BY <1>1 DEF DeletedInv, UpInv, PartyInv, SetupInv, RingInv, DestroyInv,
              GoneInv, DeadUseOnlyLate, Idle, Joins

LEMMA DeletedStep ==
    ASSUME TypeOK, FlowInv, FifoOK', ControlInv, OrderInv, [Next]_vars
    PROVE  ControlInv' /\ OrderInv'
<1>1. CASE WebThread
  BY <1>1, WebCalm, SetupSteps DEF WebThread
<1>2. CASE Outside
  BY <1>2, WebCalm, SetupSteps, FirstSteps DEF Outside
<1>3. ASSUME NEW c \in Calls, PlayerStep(c) \/ PostDestroy(c)
      PROVE  ControlInv' /\ OrderInv'
  BY <1>3, WebCalm, PostDestroyStep
<1>4. CASE SipThread
  <2>1. CASE OnRinging \/ OnAnswer \/ OnInvite \/ OnConnected \/ OnBye
             \/ EndCommand \/ RonaCommand
    BY <2>1, SessionSteps
  <2>2. CASE OnCallTerminated
    BY <2>2, TerminatedStep
  <2>3. CASE DestroyHop \/ DestroyCall
    <3>1. FifoOK /\ fifo # <<>>
      BY <2>3, Types DEF DestroyHop, DestroyCall, Takes
    <3>2. Head(fifo).call \in Calls
      BY <3>1, HeadAt
    <3> QED
      BY <2>3, <3>2, HopStep, DestroyStep
  <2> QED
    BY <1>4, <2>1, <2>2, <2>3, CommandCalm DEF SipThread
<1>5. CASE UNCHANGED vars
  <2>1. UNCHANGED <<life, peer, player, sip, empties, late, fifo>>
    BY <1>5 DEF vars, callVars, chainVars, playerVars, outside, ghosts
  <2>2. Calm /\ Grows
    BY <2>1, SameGrows DEF Calm, Joins
  <2> QED
    BY <2>1, <2>2, Types, SameShift, CalmStep
<1> QED
  BY <1>1, <1>2, <1>3, <1>4, <1>5 DEF Next

LEMMA DeletedInvariance == Spec => []DeletedInv
<1>1. IInv /\ DeletedInv /\ [Next]_vars /\ IInv' => DeletedInv'
  <2> SUFFICES ASSUME IInv, DeletedInv, [Next]_vars, IInv' PROVE DeletedInv'
    OBVIOUS
  <2>1. TypeOK /\ FlowInv /\ ControlInv /\ OrderInv /\ DeadUseOnlyLate
    BY DEF IInv, DeletedInv, ControlInv, OrderInv
  <2>2. FifoOK'
    BY DEF IInv, TypeOK, FifoOK
  <2>3. ControlInv' /\ OrderInv' /\ DeadUseOnlyLate'
    BY <2>1, <2>2, DeletedStep, DeadStep
  <2> QED
    BY <2>3 DEF DeletedInv, ControlInv, OrderInv
<1> QED
  BY <1>1, InitDeleted, PhoneInvariance, PTL DEF Spec

(* A command meets a deleted call only when a web thread has posted it to  *)
(* a call that was over, or when the call's plays without sounds are as    *)
(* many as the messages on the way to ~Call, less one                      *)
(* (Call::onSoundQueueEmpty, ActionMachine, ~Call).                        *)
THEOREM OnlyLateCommandsMeetDeletedCalls == Spec => []DeadUseOnlyLate
<1>1. DeletedInv => DeadUseOnlyLate
  BY DEF DeletedInv
<1> QED
  BY <1>1, DeletedInvariance, PTL
=============================================================================
