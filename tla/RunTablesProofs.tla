-------------------------- MODULE RunTablesProofs --------------------------
(***************************************************************************)
(* Facts about the reads of RunTables that the proofs about the console    *)
(* and about the detail page share: what LastSeq and Drain return on a     *)
(* transcript that has a last event.                                       *)
(***************************************************************************)
EXTENDS RunTables, DataLemmas

(* A transcript is empty or has an event that no other is behind.  (RunFeed *)
(* does not bound its sequence numbers, so this is something to maintain.)  *)
HasLast(events) ==
  events = {} \/ \E e \in events : \A f \in events : f.seq <= e.seq

(* Fields of an event. *)
LEMMA EventFields ==
  ASSUME NEW e \in RunEvent
  PROVE  e.seq \in Nat /\ e.kind \in Kind
BY DEF RunEvent

(* LastSeq is -1 for the empty transcript and otherwise the seq of an event *)
(* that every other event is at or before.                                  *)
LEMMA LastSeqIsLast ==
  ASSUME NEW E \in SUBSET RunEvent, HasLast(E)
  PROVE  /\ LastSeq(E) \in Nat \cup {-1}
         /\ \A e \in E : e.seq <= LastSeq(E)
         /\ E # {} => \E e \in E : e.seq = LastSeq(E)
<1>1. CASE E = {}
  BY <1>1 DEF LastSeq
<1>2. CASE E # {}
  <2>1. PICK l \in E : \A f \in E : f.seq <= l.seq
    BY <1>2 DEF HasLast
  <2>2. l.seq \in {e.seq : e \in E}
    OBVIOUS
  <2>3. /\ LastSeq(E) \in {e.seq : e \in E}
        /\ \A e \in E : e.seq <= LastSeq(E)
    BY <1>2, <2>1, <2>2 DEF LastSeq
  <2>4. PICK k \in E : k.seq = LastSeq(E)
    BY <2>3
  <2> QED BY <2>3, <2>4, EventFields
<1> QED BY <1>1, <1>2

(* A transcript whose sequence numbers are bounded has a last event. *)
LEMMA BoundedHasLast ==
  ASSUME NEW E \in SUBSET RunEvent, NEW n \in Nat, \A e \in E : e.seq < n
  PROVE  HasLast(E)
<1>1. CASE E = {}
  BY <1>1 DEF HasLast
<1>2. CASE E # {}
  <2> DEFINE S == {n - e.seq : e \in E}
  <2>1. ASSUME NEW e \in E PROVE n - e.seq \in Nat
    BY EventFields
  <2>2. S \in SUBSET Nat /\ S # {}
    BY <1>2, <2>1
  <2>3. PICK m \in S : \A k \in S : m <= k
    BY <2>2, LeastNatural
  <2>4. PICK l \in E : m = n - l.seq
    BY <2>3
  <2>5. ASSUME NEW f \in E PROVE f.seq <= l.seq
    <3>1. n - l.seq <= n - f.seq
      BY <2>3, <2>4
    <3> QED BY <3>1, EventFields
  <2> QED BY <2>5 DEF HasLast
<1> QED BY <1>1, <1>2

(* A tick of the tail loses nothing and repeats nothing: the drained batch  *)
(* is exactly the part of the transcript between the old cursor and the new *)
(* one, and the cursor only moves over events it has taken.                 *)
LEMMA DrainAdvances ==
  ASSUME NEW E \in SUBSET RunEvent, HasLast(E), NEW after \in Nat \cup {-1}
  PROVE  LET d == Drain(E, after)
         IN  /\ d.last \in Nat \cup {-1}
             /\ d.last >= after
             /\ d.events = {e \in E : after < e.seq /\ e.seq <= d.last}
             /\ d.events = {} => d.last = after
             /\ d.last = after \/ \E e \in E : e.seq = d.last
<1> DEFINE batch == EventsSince(E, after)
           ends  == {e \in batch : e.kind = "run_end"}
           taken == {e \in batch : \A f \in ends : e.seq <= f.seq}
           last  == IF taken = {} THEN after ELSE LastSeq(taken)
<1>1. /\ Drain(E, after).last = last
      /\ Drain(E, after).events = taken
  BY DEF Drain
<1>2. /\ batch \in SUBSET RunEvent /\ batch \subseteq E
      /\ \A e \in E : e \in batch <=> e.seq > after
  BY DEF EventsSince
<1>3. taken \in SUBSET RunEvent /\ taken \subseteq batch
  BY <1>2
<1>4. HasLast(taken) /\ \A e \in batch, t \in taken : e.seq <= t.seq => e \in taken
  <2>1. CASE ends = {}
    <3>1. taken = batch
      BY <2>1
    <3>2. HasLast(batch)
      <4>1. CASE batch = {}
        BY <4>1 DEF HasLast
      <4>2. CASE batch # {}
        <5>1. PICK l \in E : \A f \in E : f.seq <= l.seq
          BY <4>2, <1>2 DEF HasLast
        <5>2. PICK b \in batch : TRUE
          BY <4>2
        <5>3. l.seq > after
          BY <5>1, <5>2, <1>2, EventFields
        <5> QED BY <5>1, <5>3, <1>2 DEF HasLast
      <4> QED BY <4>1, <4>2
    <3> QED BY <3>1, <3>2
  <2>2. CASE ends # {}
    <3> DEFINE S == {e.seq : e \in ends}
    <3>1. S \in SUBSET Nat /\ S # {}
      BY <2>2, <1>2, EventFields
    <3>2. PICK m \in S : \A n \in S : m <= n
      BY <3>1, LeastNatural
    <3>3. PICK f \in ends : f.seq = m
      BY <3>2
    <3>4. f \in taken
      BY <3>2, <3>3
    <3>5. \A e \in taken : e.seq <= f.seq
      OBVIOUS
    <3>6. \A e \in batch, t \in taken : e.seq <= t.seq => e \in taken
      BY <1>2, EventFields
    <3> QED BY <3>4, <3>5, <3>6 DEF HasLast
  <2> QED BY <2>1, <2>2
<1>5. CASE taken = {}
  <2>1. last = after
    BY <1>5
  <2>2. {e \in E : after < e.seq /\ e.seq <= after} = {}
    BY EventFields
  <2> QED BY <1>1, <2>1, <2>2, <1>5
<1>6. CASE taken # {}
  <2>1. /\ last \in Nat
        /\ \A e \in taken : e.seq <= last
    BY <1>3, <1>4, <1>6, LastSeqIsLast, EventFields
  <2>2. PICK t \in taken : t.seq = last
    BY <1>3, <1>4, <1>6, LastSeqIsLast
  <2>3. last > after
    BY <2>2, <1>2, <1>3
  <2>4. taken = {e \in E : after < e.seq /\ e.seq <= last}
    <3>1. ASSUME NEW e \in taken PROVE e \in E /\ after < e.seq /\ e.seq <= last
      BY <3>1, <1>2, <1>3, <2>1, EventFields
    <3>2. ASSUME NEW e \in E, after < e.seq, e.seq <= last PROVE e \in taken
      <4>1. e \in batch
        BY <3>2, <1>2, EventFields
      <4> QED BY <4>1, <1>4, <2>2, <3>2
    <3> QED BY <3>1, <3>2
  <2>5. \E e \in E : e.seq = last
    BY <1>2, <1>3, <2>2
  <2> HIDE DEF taken, last
  <2> QED BY <1>1, <1>6, <2>1, <2>3, <2>4, <2>5
<1> QED BY <1>5, <1>6
=============================================================================
