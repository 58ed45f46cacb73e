----------------------------- MODULE DataProofs -----------------------------
(***************************************************************************)
(* Proofs about what is stored: the records of the migrator, for any       *)
(* files, any number of processes and any deaths; the copies in the        *)
(* in-process cache; the copies and notices of the bookstore's RPC         *)
(* services; the stock of its gateway, modulo the word it is kept in; and  *)
(* the users of the multi-tenant example.                                  *)
(***************************************************************************)
EXTENDS CacheAside, Migration, BookServices, TenantManagement, BookGateway, FiniteSetTheorems,
        WellFoundedInduction, TLAPS

-----------------------------------------------------------------------------
(* Migrations *)

MigPc == {"idle", "script", "record", "undo", "unrecord"}

MigrationTypeOK ==
    /\ dir \in SUBSET Versions /\ recorded \in SUBSET Versions /\ torn \in SUBSET Versions
    /\ effect \in [Versions -> Nat]
    /\ mig \in [Migrators -> [pc : MigPc, todo : SUBSET Versions, now : Versions \cup {-1}]]
    /\ runs \in Nat

\* What a process works on is before it; one that rolls back has nothing else.
WorkInv ==
    \A p \in Migrators :
        /\ mig[p].pc = "idle" => mig[p] = Resting
        /\ mig[p].pc # "idle" => mig[p].now \in mig[p].todo
        /\ mig[p].pc \in {"undo", "unrecord"} => mig[p].todo = {mig[p].now}

\* Two processes have the same version before them only if it is torn.
ApartInv ==
    \A p, q \in Migrators : p # q => mig[p].todo \cap mig[q].todo \subseteq torn

Before(p, v) == v \in mig[p].todo

\* The truth about v when p has it before it.
Truth(p, v) ==
    /\ v \in recorded <=> mig[p].pc \in {"undo", "unrecord"}
    /\ effect[v] = IF mig[p].pc = "undo" \/ (mig[p].pc = "record" /\ v = mig[p].now) THEN 1 ELSE 0

TruthInv ==
    \A v \in Versions \ torn :
        /\ \A p \in Migrators : Before(p, v) => Truth(p, v)
        /\ (\A p \in Migrators : ~Before(p, v)) => effect[v] = IF v \in recorded THEN 1 ELSE 0

MigrationInv == MigrationTypeOK /\ WorkInv /\ ApartInv /\ TruthInv

(***************************************************************************)
(* The least and the greatest of a set: they exist, so the files that the  *)
(* migrator takes are of the sets it takes them from.                      *)
(***************************************************************************)
LEMMA GreatestExists ==
    ASSUME NEW S \in SUBSET Nat, IsFiniteSet(S), S # {}
    PROVE  Greatest(S) \in S /\ \A y \in S : y <= Greatest(S)
<1> DEFINE HasGreatest(T) == \E x \in T : \A y \in T : y <= x
           Bad == {T \in FiniteSubsetsOf(S) : T # {} /\ ~HasGreatest(T)}
<1>1. Bad = {}
  <2> SUFFICES ASSUME Bad # {} PROVE FALSE
    OBVIOUS
  <2>1. PICK T \in Bad : \A U \in Bad : <<U, T>> \notin StrictSubsetOrdering(S)
    <3>1. Bad \subseteq FiniteSubsetsOf(S)
      OBVIOUS
    <3> HIDE DEF Bad
    <3> QED BY <3>1, FS_StrictSubsetOrderingWellFounded, WFMin
  <2>2. T \subseteq S /\ IsFiniteSet(T) /\ ~HasGreatest(T)
    BY <2>1 DEF FiniteSubsetsOf
  <2>3. PICK x \in T : TRUE
    BY <2>1
  <2> DEFINE U == T \ {x}
  <2>4. U \in FiniteSubsetsOf(S) /\ <<U, T>> \in StrictSubsetOrdering(S)
    <3>1. IsFiniteSet(U)
      BY <2>2, FS_RemoveElement
    <3> QED BY <2>2, <2>3, <3>1 DEF FiniteSubsetsOf, StrictSubsetOrdering
  <2>5. U = {} \/ HasGreatest(U)
    BY <2>1, <2>4
  <2>6. CASE U = {}
    <3>1. \A y \in T : y = x /\ y \in Nat
      BY <2>2, <2>6
    <3>2. HasGreatest(T)
      BY <2>3, <3>1
    <3> QED BY <2>2, <3>2
  <2>7. CASE HasGreatest(U)
    <3>1. PICK z \in U : \A y \in U : y <= z
      BY <2>7
    <3>2. x \in Nat /\ z \in Nat /\ z \in T /\ \A y \in T : y = x \/ y <= z
      BY <2>2, <2>3, <3>1
    <3>3. CASE x <= z
      BY <2>2, <3>2, <3>3
    <3>4. CASE z <= x
      <4>1. \A y \in T : y <= x
        BY <2>2, <3>2, <3>4
      <4> QED BY <2>2, <2>3, <4>1
    <3> QED BY <3>2, <3>3, <3>4
  <2> QED BY <2>5, <2>6, <2>7
<1>2. S \in FiniteSubsetsOf(S)
  BY DEF FiniteSubsetsOf
<1>3. HasGreatest(S)
  BY <1>1, <1>2
<1> QED BY <1>3 DEF Greatest

LEMMA LeastExists ==
    ASSUME NEW S \in SUBSET Nat, IsFiniteSet(S), S # {}
    PROVE  Least(S) \in S /\ \A y \in S : Least(S) <= y
<1> DEFINE m == Greatest(S)
           D == {m - y : y \in S}
<1>1. m \in Nat /\ \A y \in S : y \in Nat /\ y <= m
  BY GreatestExists
<1> HIDE DEF m
<1>2. D \in SUBSET Nat /\ D # {} /\ \A d \in D : d <= m
  BY <1>1
<1>3. IsFiniteSet(D)
  BY <1>1, <1>2, FS_BoundedSetOfNaturals
<1>4. PICK d \in D : \A e \in D : e <= d
  BY <1>2, <1>3, GreatestExists
<1>5. PICK x \in S : d = m - x
  BY <1>4
<1>6. ASSUME NEW y \in S PROVE x <= y
  <2>1. m - y <= m - x
    BY <1>4, <1>5
  <2> QED BY <1>1, <2>1
<1> QED BY <1>6 DEF Least

LEMMA MigrationInvInit == MigrationInit => MigrationInv
<1> SUFFICES ASSUME MigrationInit PROVE MigrationInv
  OBVIOUS
<1>1. \A p \in Migrators : mig[p] = Resting
  BY DEF MigrationInit
<1>2. Resting \in [pc : MigPc, todo : SUBSET Versions, now : Versions \cup {-1}]
  BY DEF Resting, MigPc
<1>3. MigrationTypeOK
  BY <1>2 DEF MigrationInit, MigrationTypeOK
<1>4. WorkInv /\ ApartInv
  BY <1>1 DEF WorkInv, ApartInv, Resting
<1>5. TruthInv
  BY <1>1 DEF TruthInv, Before, Resting, MigrationInit
<1> QED BY <1>3, <1>4, <1>5 DEF MigrationInv

\* Process p lets go of what it had before it.
LEMMA ReleaseKeepsInv ==
    ASSUME MigrationInv, NEW p \in Migrators, mig' = [mig EXCEPT ![p] = Resting],
           UNCHANGED <<dir, effect>>, runs' \in Nat, recorded' \in SUBSET Versions,
           torn' \in SUBSET Versions, torn \subseteq torn',
           \A v \in Versions \ torn' : ~Before(p, v) => (v \in recorded' <=> v \in recorded),
           \A v \in Versions \ torn' : Before(p, v) => effect[v] = IF v \in recorded' THEN 1 ELSE 0
    PROVE  MigrationInv'
<1>1. Resting \in [pc : MigPc, todo : SUBSET Versions, now : Versions \cup {-1}]
  BY DEF Resting, MigPc
<1>2. MigrationTypeOK'
  BY <1>1 DEF MigrationInv, MigrationTypeOK
<1>3. \A q \in Migrators : mig'[q] = IF q = p THEN Resting ELSE mig[q]
  BY DEF MigrationInv, MigrationTypeOK
<1>4. WorkInv'
  BY <1>3 DEF MigrationInv, WorkInv, Resting
<1>5. ApartInv'
  BY <1>3 DEF MigrationInv, ApartInv, Resting
<1>6. \A q \in Migrators, v \in Versions : Before(q, v)' <=> q # p /\ Before(q, v)
  BY <1>3 DEF Before, Resting
<1>7. TruthInv'
  <2> SUFFICES ASSUME NEW v \in Versions \ torn'
               PROVE  /\ \A q \in Migrators : Before(q, v)' => Truth(q, v)'
                      /\ (\A q \in Migrators : ~Before(q, v)') => effect[v] = IF v \in recorded' THEN 1 ELSE 0
    BY DEF TruthInv
  <2>1. v \in Versions \ torn
    OBVIOUS
  <2>2. ASSUME NEW q \in Migrators, Before(q, v)' PROVE Truth(q, v)'
    <3>1. q # p /\ Before(q, v) /\ Truth(q, v) /\ mig'[q] = mig[q]
      BY <1>3, <1>6, <2>1, <2>2 DEF MigrationInv, TruthInv
    <3>2. ~Before(p, v)
      BY <2>1, <3>1 DEF MigrationInv, ApartInv, Before
    <3> QED BY <3>1, <3>2 DEF Truth
  <2>3. ASSUME \A q \in Migrators : ~Before(q, v)' PROVE effect[v] = IF v \in recorded' THEN 1 ELSE 0
    <3>1. CASE Before(p, v)
      BY <3>1
    <3>2. CASE ~Before(p, v)
      BY <1>6, <2>1, <2>3, <3>2 DEF MigrationInv, TruthInv
    <3> QED BY <3>1, <3>2
  <2> QED BY <2>2, <2>3
<1> QED BY <1>2, <1>4, <1>5, <1>7 DEF MigrationInv

\* Process p turns to v, of the versions todo that it has before it from now on.
LEMMA TurnKeepsInv ==
    ASSUME MigrationInv, NEW p \in Migrators, NEW l \in {"script", "undo"},
           NEW todo \in SUBSET Versions, NEW v \in todo, l = "undo" => todo = {v}, Turn(p, l,
           todo, v),
           UNCHANGED <<dir, effect>>, runs' \in Nat, recorded' \in SUBSET Versions,
           \A w \in Versions \ torn' : w \notin todo /\ ~Before(p,
           w) => (w \in recorded' <=> w \in recorded),
           \A w \in Versions \ torn' : w \notin todo /\ Before(p,
           w) => effect[w] = IF w \in recorded' THEN 1 ELSE 0,
           \A w \in todo \ torn' : /\ w \in recorded' <=> l = "undo"
                                   /\ effect[w] = IF l = "undo" THEN 1 ELSE 0
    PROVE  MigrationInv'
<1> DEFINE new == [pc |-> l, todo |-> todo, now |-> v]
<1>1. new \in [pc : MigPc, todo : SUBSET Versions, now : Versions \cup {-1}]
  BY DEF MigPc
<1>2. /\ mig' = [mig EXCEPT ![p] = new] /\ torn \subseteq torn' /\ torn' \in SUBSET Versions
      /\ \A w \in todo, q \in Migrators \ {p} : Before(q, w) => w \in torn'
  BY DEF Turn, Before, MigrationInv, MigrationTypeOK
<1>3. MigrationTypeOK'
  BY <1>1, <1>2 DEF MigrationInv, MigrationTypeOK
<1>4. \A q \in Migrators : mig'[q] = IF q = p THEN new ELSE mig[q]
  BY <1>2 DEF MigrationInv, MigrationTypeOK
<1>5. WorkInv'
  BY <1>4 DEF MigrationInv, WorkInv
<1>6. \A q \in Migrators, w \in Versions : Before(q, w)' <=> IF q = p THEN w \in todo ELSE Before(q, w)
  BY <1>4 DEF Before
<1>7. ApartInv'
  <2> SUFFICES ASSUME NEW q \in Migrators, NEW r \in Migrators, q # r, NEW w \in mig'[q].todo \cap mig'[r].todo
               PROVE  w \in torn'
    BY DEF ApartInv
  <2>1. w \in Versions /\ Before(q, w)' /\ Before(r, w)'
    BY <1>3 DEF MigrationTypeOK, Before
  <2>2. CASE q # p /\ r # p
    BY <1>2, <1>6, <2>1, <2>2 DEF MigrationInv, ApartInv, Before
  <2>3. CASE q = p \/ r = p
    BY <1>2, <1>6, <2>1, <2>3
  <2> QED BY <2>2, <2>3
<1>8. TruthInv'
  <2> SUFFICES ASSUME NEW w \in Versions \ torn'
               PROVE  /\ \A q \in Migrators : Before(q, w)' => Truth(q, w)'
                      /\ (\A q \in Migrators : ~Before(q, w)') => effect[w] = IF w \in recorded' THEN 1 ELSE 0
    BY DEF TruthInv
  <2>1. w \in Versions \ torn
    BY <1>2
  <2>2. ASSUME NEW q \in Migrators, Before(q, w)', q = p PROVE Truth(q, w)'
    <3>1. w \in todo /\ mig'[q] = new
      BY <1>4, <1>6, <2>2
    <3> QED BY <3>1 DEF Truth
  <2>3. ASSUME NEW q \in Migrators, Before(q, w)', q # p PROVE Truth(q, w)'
    <3>1. Before(q, w) /\ Truth(q, w) /\ mig'[q] = mig[q]
      BY <1>4, <1>6, <2>1, <2>3 DEF MigrationInv, TruthInv
    <3>2. ~Before(p, w) /\ w \notin todo
      BY <1>2, <2>1, <2>3, <3>1 DEF MigrationInv, ApartInv, Before
    <3> QED BY <3>1, <3>2 DEF Truth
  <2>4. ASSUME \A q \in Migrators : ~Before(q, w)' PROVE effect[w] = IF w \in recorded' THEN 1 ELSE 0
    <3>1. w \notin todo
      BY <1>6, <2>4
    <3>2. CASE Before(p, w)
      BY <3>1, <3>2
    <3>3. CASE ~Before(p, w)
      BY <1>6, <2>1, <2>4, <3>1, <3>3 DEF MigrationInv, TruthInv
    <3> QED BY <3>2, <3>3
  <2> QED BY <2>2, <2>3, <2>4
<1> QED BY <1>3, <1>5, <1>7, <1>8 DEF MigrationInv


LEMMA NextFileKeepsInv ==
    ASSUME MigrationInv, NEW p \in Migrators, NEW todo \in SUBSET Versions, NextFile(p, todo),
           UNCHANGED <<dir, effect>>, runs' \in Nat, recorded' \in SUBSET Versions,
           \A w \in Versions \ torn' : w \notin todo /\ ~Before(p,
           w) => (w \in recorded' <=> w \in recorded),
           \A w \in Versions \ torn' : w \notin todo /\ Before(p,
           w) => effect[w] = IF w \in recorded' THEN 1 ELSE 0,
           \A w \in todo \ torn' : w \notin recorded' /\ effect[w] = 0
    PROVE  MigrationInv'
<1>1. CASE todo = {}
  <2>1. mig' = [mig EXCEPT ![p] = Resting] /\ torn' = torn
    BY <1>1 DEF NextFile
  <2> QED BY <1>1, <2>1, ReleaseKeepsInv DEF MigrationInv, MigrationTypeOK
<1>2. CASE todo # {}
  <2>1. todo \in SUBSET Nat /\ IsFiniteSet(todo)
    BY MigrationAssumption, FS_Subset
  <2>2. Least(todo) \in todo
    BY <1>2, <2>1, LeastExists
  <2>3. Turn(p, "script", todo, Least(todo))
    BY <1>2 DEF NextFile
  <2> QED BY <2>2, <2>3, TurnKeepsInv
<1> QED BY <1>1, <1>2

LEMMA RunKeepsInv ==
    ASSUME MigrationInv, NEW p \in Migrators, Run(p)
    PROVE  MigrationInv'
<1>1. /\ mig[p].pc = "idle" /\ runs' \in Nat /\ NextFile(p, Pending)
      /\ UNCHANGED <<dir, effect, recorded>>
  BY DEF Run, MigrationInv, MigrationTypeOK
<1>2. Pending \in SUBSET Versions /\ recorded' \in SUBSET Versions
  BY <1>1 DEF Pending, MigrationInv, MigrationTypeOK
<1>3. \A w \in Versions : ~Before(p, w)
  BY <1>1 DEF MigrationInv, WorkInv, Before, Resting
<1>4. torn \subseteq torn' /\ \A w \in Pending \ torn', q \in Migrators \ {p} : ~Before(q, w)
  BY <1>1 DEF NextFile, Turn, Before
<1>5. ASSUME NEW w \in Pending \ torn' PROVE w \notin recorded' /\ effect[w] = 0
  <2>1. w \in Versions \ torn /\ w \notin recorded /\ \A q \in Migrators : ~Before(q, w)
    BY <1>2, <1>3, <1>4 DEF Pending
  <2> QED BY <1>1, <2>1 DEF MigrationInv, TruthInv
<1> QED BY <1>1, <1>2, <1>3, <1>5, NextFileKeepsInv

LEMMA RollbackKeepsInv ==
    ASSUME MigrationInv, NEW p \in Migrators, Rollback(p)
    PROVE  MigrationInv'
<1> DEFINE last == Greatest(recorded)
<1>1. /\ mig[p].pc = "idle" /\ runs' \in Nat /\ UNCHANGED <<dir, effect, recorded>>
      /\ recorded' \in SUBSET Versions
  BY DEF Rollback, MigrationInv, MigrationTypeOK
<1>2. CASE recorded # {} /\ Turn(p, "undo", {last}, last)
  <2>1. recorded \in SUBSET Nat /\ IsFiniteSet(recorded)
    BY MigrationAssumption, FS_Subset DEF MigrationInv, MigrationTypeOK
  <2>2. last \in recorded
    BY <1>2, <2>1, GreatestExists
  <2>3. {last} \in SUBSET Versions
    BY <1>1, <2>2
  <2>4. \A w \in Versions : ~Before(p, w)
    BY <1>1 DEF MigrationInv, WorkInv, Before, Resting
  <2>5. torn \subseteq torn' /\ \A w \in {last} \ torn', q \in Migrators \ {p} : ~Before(q, w)
    BY <1>2 DEF Turn, Before
  <2>6. ASSUME NEW w \in {last} \ torn' PROVE w \in recorded' /\ effect[w] = 1
    <3>1. w \in Versions \ torn /\ w \in recorded /\ \A q \in Migrators : ~Before(q, w)
      BY <2>2, <2>3, <2>4, <2>5
    <3> QED BY <1>1, <3>1 DEF MigrationInv, TruthInv
  <2> HIDE DEF last
  <2> QED BY <1>1, <1>2, <2>3, <2>4, <2>6, TurnKeepsInv
<1>3. CASE UNCHANGED <<mig, torn>>
  BY <1>1, <1>3 DEF MigrationInv, MigrationTypeOK, WorkInv, ApartInv, TruthInv, Truth, Before
<1> QED BY <1>2, <1>3 DEF Rollback

LEMMA RecordKeepsInv ==
    ASSUME MigrationInv, NEW p \in Migrators, RecordVersion(p)
    PROVE  MigrationInv'
<1> DEFINE v == mig[p].now
           todo == mig[p].todo \ {v}
<1>1. /\ mig[p].pc = "record" /\ UNCHANGED <<dir, effect, runs>> /\ runs' \in Nat
      /\ mig[p] \in [pc : MigPc, todo : SUBSET Versions, now : Versions \cup {-1}]
  BY DEF RecordVersion, MigrationInv, MigrationTypeOK
<1>2. v \in mig[p].todo /\ mig[p].todo \in SUBSET Versions /\ v \in Versions
  BY <1>1 DEF MigrationInv, WorkInv
<1>3. \A w \in Versions : Before(p, w) <=> w \in mig[p].todo
  BY DEF Before
<1>4. \A w \in mig[p].todo \ torn : w \notin recorded /\ effect[w] = IF w = v THEN 1 ELSE 0
  BY <1>1, <1>2, <1>3 DEF MigrationInv, TruthInv, Truth
<1>5. CASE v \in recorded
  <2>1. mig' = [mig EXCEPT ![p] = Resting] /\ UNCHANGED <<recorded, torn>>
    BY <1>5 DEF RecordVersion
  <2>2. recorded' \in SUBSET Versions /\ torn' \in SUBSET Versions
    BY <2>1 DEF MigrationInv, MigrationTypeOK
  <2> QED BY <1>1, <1>2, <1>3, <1>4, <1>5, <2>1, <2>2, ReleaseKeepsInv
<1>6. CASE v \notin recorded
  <2>1. recorded' = recorded \cup {v} /\ NextFile(p, todo)
    BY <1>6 DEF RecordVersion
  <2>2. torn \subseteq torn'
    BY <2>1 DEF NextFile, Turn
  <2>3. recorded' \in SUBSET Versions /\ todo \in SUBSET Versions
    BY <1>2, <2>1 DEF MigrationInv, MigrationTypeOK
  <2>4. \A w \in Versions \ torn' : w \notin todo /\ ~Before(p, w) => (w \in recorded' <=> w \in recorded)
    BY <1>2, <1>3, <2>1
  <2>5. \A w \in Versions \ torn' : w \notin todo /\ Before(p, w) => effect[w] = IF w \in recorded' THEN 1 ELSE 0
    BY <1>2, <1>3, <1>4, <2>1, <2>2
  <2>6. \A w \in todo \ torn' : w \notin recorded' /\ effect[w] = 0
    BY <1>2, <1>4, <2>1, <2>2
  <2> HIDE DEF todo, v
  <2> QED BY <1>1, <2>1, <2>3, <2>4, <2>5, <2>6, NextFileKeepsInv
<1> QED BY <1>5, <1>6

\* A script is applied or undone, and the row is to follow.
LEMMA StatementKeepsInv ==
    ASSUME MigrationInv, NEW p \in Migrators, ApplyScript(p) \/ Undo(p)
    PROVE  MigrationInv'
<1> DEFINE v == mig[p].now
           l == IF mig[p].pc = "script" THEN "record" ELSE "unrecord"
           new == [mig[p] EXCEPT !.pc = l]
<1>1. /\ mig[p].pc \in {"script", "undo"} /\ UNCHANGED <<dir, recorded, runs, torn>>
      /\ mig[p] \in [pc : MigPc, todo : SUBSET Versions, now : Versions \cup {-1}]
      /\ mig' = [mig EXCEPT ![p] = new]
  BY DEF ApplyScript, Undo, MigrationInv, MigrationTypeOK
<1>2. v \in mig[p].todo /\ v \in Versions /\ (mig[p].pc = "undo" => mig[p].todo = {v})
  BY <1>1 DEF MigrationInv, WorkInv
<1>3. effect \in [Versions -> Nat] /\ torn \in SUBSET Versions
  BY DEF MigrationInv, MigrationTypeOK
<1>4. effect' = [effect EXCEPT ![v] = IF mig[p].pc = "script" THEN effect[v] + 1 ELSE IF effect[v] > 0 THEN effect[v] - 1 ELSE 0]
  BY <1>1 DEF ApplyScript, Undo
<1>5. effect' \in [Versions -> Nat] /\ \A w \in Versions : w # v => effect'[w] = effect[w]
  BY <1>2, <1>3, <1>4
<1>6. /\ new \in [pc : MigPc, todo : SUBSET Versions, now : Versions \cup {-1}]
      /\ new.todo = mig[p].todo /\ new.now = v /\ new.pc = l
  BY <1>1 DEF MigPc
<1> HIDE DEF new
<1>7. \A q \in Migrators : mig'[q] = IF q = p THEN new ELSE mig[q]
  BY <1>1 DEF MigrationInv, MigrationTypeOK
<1>8. MigrationTypeOK'
  BY <1>1, <1>5, <1>6 DEF MigrationInv, MigrationTypeOK
<1>9. \A q \in Migrators : mig'[q].todo = mig[q].todo
  BY <1>6, <1>7
<1>10. WorkInv'
  BY <1>1, <1>2, <1>6, <1>7 DEF MigrationInv, WorkInv
<1>11. ApartInv'
  BY <1>1, <1>9 DEF MigrationInv, ApartInv
<1>12. TruthInv'
  <2> SUFFICES ASSUME NEW w \in Versions \ torn
               PROVE  /\ \A q \in Migrators : Before(q, w)' => Truth(q, w)'
                      /\ (\A q \in Migrators : ~Before(q, w)') => effect'[w] = IF w \in recorded THEN 1 ELSE 0
    BY <1>1 DEF TruthInv
  <2>1. \A q \in Migrators : Before(q, w)' <=> Before(q, w)
    BY <1>9 DEF Before
  <2>2. ASSUME Before(p, w) PROVE Truth(p, w)'
    <3>1. Truth(p, w)
      BY <2>2 DEF MigrationInv, TruthInv
    <3>2. CASE mig[p].pc = "script" /\ w = v
      <4>1. effect'[w] = 1
        BY <1>2, <1>3, <1>4, <3>1, <3>2 DEF Truth
      <4> QED BY <1>1, <1>6, <1>7, <3>1, <3>2, <4>1 DEF Truth
    <3>3. CASE mig[p].pc = "script" /\ w # v
      BY <1>1, <1>5, <1>6, <1>7, <3>1, <3>3 DEF Truth
    <3>4. CASE mig[p].pc = "undo"
      <4>1. w = v
        BY <1>2, <2>2, <3>4 DEF Before
      <4>2. effect'[w] = 0
        BY <1>2, <1>3, <1>4, <3>1, <3>4, <4>1 DEF Truth
      <4> QED BY <1>1, <1>6, <1>7, <3>1, <3>4, <4>2 DEF Truth
    <3> QED BY <1>1, <3>2, <3>3, <3>4
  <2>3. ASSUME NEW q \in Migrators, q # p, Before(q, w) PROVE Truth(q, w)'
    <3>1. Truth(q, w) /\ w # v
      BY <1>2, <2>3 DEF MigrationInv, TruthInv, ApartInv, Before
    <3> QED BY <1>1, <1>5, <1>7, <2>3, <3>1 DEF Truth
  <2>4. ASSUME \A q \in Migrators : ~Before(q, w) PROVE effect'[w] = IF w \in recorded THEN 1 ELSE 0
    <3>1. w # v
      BY <1>2, <2>4 DEF Before
    <3> QED BY <1>5, <2>4, <3>1 DEF MigrationInv, TruthInv
  <2> QED BY <2>1, <2>2, <2>3, <2>4
<1> QED BY <1>8, <1>10, <1>11, <1>12 DEF MigrationInv

\* A process stops: by a script that fails, by death, or because its row is deleted.
LEMMA StopKeepsInv ==
    ASSUME MigrationInv, NEW p \in Migrators, ScriptFails(p) \/ Die(p) \/ Unrecord(p)
    PROVE  MigrationInv'
<1> DEFINE v == mig[p].now
<1>1. /\ mig' = [mig EXCEPT ![p] = Resting] /\ UNCHANGED <<dir, effect>> /\ runs' \in Nat
      /\ mig[p] \in [pc : MigPc, todo : SUBSET Versions, now : Versions \cup {-1}] /\ mig[p].pc # "idle"
  BY DEF ScriptFails, Die, Unrecord, MigrationInv, MigrationTypeOK
<1>2. v \in mig[p].todo /\ v \in Versions /\ (mig[p].pc \in {"undo", "unrecord"} => mig[p].todo = {v})
  BY <1>1 DEF MigrationInv, WorkInv
<1>3. recorded \in SUBSET Versions /\ torn \in SUBSET Versions
  BY DEF MigrationInv, MigrationTypeOK
<1>4. \A w \in Versions : Before(p, w) <=> w \in mig[p].todo
  BY DEF Before
<1>5. \A w \in mig[p].todo \ torn : Truth(p, w)
  BY <1>1, <1>4 DEF MigrationInv, TruthInv
<1>6. CASE ScriptFails(p) \/ Die(p)
  <2>1. /\ recorded' = recorded /\ torn \subseteq torn' /\ torn' \in SUBSET Versions
        /\ mig[p].pc \in {"record", "unrecord"} => v \in torn'
    BY <1>2, <1>3, <1>6 DEF ScriptFails, Die
  <2>2. ASSUME NEW w \in Versions \ torn', w \in mig[p].todo PROVE effect[w] = IF w \in recorded THEN 1 ELSE 0
    <3>1. Truth(p, w) /\ (mig[p].pc \in {"record", "unrecord"} => w # v)
      BY <1>5, <2>1, <2>2
    <3> QED BY <1>1, <1>2, <2>2, <3>1 DEF Truth, MigPc
  <2> QED BY <1>1, <1>3, <1>4, <2>1, <2>2, ReleaseKeepsInv
<1>7. CASE Unrecord(p)
  <2>1. mig[p].pc = "unrecord" /\ recorded' = recorded \ {v} /\ torn' = torn
    BY <1>7 DEF Unrecord
  <2>2. \A w \in Versions \ torn' : w \in mig[p].todo => w = v /\ effect[w] = 0
    BY <1>2, <1>5, <2>1 DEF Truth
  <2>3. \A w \in Versions \ torn' : Before(p, w) => effect[w] = IF w \in recorded' THEN 1 ELSE 0
    BY <1>4, <2>1, <2>2
  <2>4. \A w \in Versions \ torn' : ~Before(p, w) => (w \in recorded' <=> w \in recorded)
    BY <1>2, <1>4, <2>1
  <2>5. recorded' \in SUBSET Versions /\ torn' \in SUBSET Versions /\ torn \subseteq torn'
    BY <1>3, <2>1
  <2> QED BY <1>1, <2>3, <2>4, <2>5, ReleaseKeepsInv
<1> QED BY <1>6, <1>7

LEMMA MigrationInvStep == MigrationInv /\ [MigrationNext]_migrationVars => MigrationInv'
<1> SUFFICES ASSUME MigrationInv, [MigrationNext]_migrationVars PROVE MigrationInv'
  OBVIOUS
<1>1. ASSUME NEW v \in Versions, AddFile(v) PROVE MigrationInv'
  BY <1>1 DEF AddFile, MigrationInv, MigrationTypeOK, WorkInv, ApartInv, TruthInv, Truth, Before
<1>2. ASSUME NEW p \in Migrators,
             \/ Run(p) \/ ApplyScript(p) \/ ScriptFails(p) \/ RecordVersion(p)
             \/ Rollback(p) \/ Undo(p) \/ Unrecord(p) \/ Die(p)
      PROVE  MigrationInv'
  BY <1>2, RunKeepsInv, RollbackKeepsInv, RecordKeepsInv, StatementKeepsInv, StopKeepsInv
<1>3. CASE UNCHANGED migrationVars
  BY <1>3 DEF migrationVars, MigrationInv, MigrationTypeOK, WorkInv, ApartInv, TruthInv, Truth,
     Before
<1> QED BY <1>1, <1>2, <1>3 DEF MigrationNext

(***************************************************************************)
(* For any set of files and of processes, and wherever processes die: the  *)
(* table of versions tells what is in effect, but for the version that a   *)
(* process is at work on, and for those that were torn.                    *)
(***************************************************************************)
THEOREM MigrationRecordsTrue == MigrationSpec => []RecordsAreTrue
<1>1. MigrationInv => RecordsAreTrue
  <2> SUFFICES ASSUME MigrationInv, NEW v \in Versions \ torn,
                      ~ (\E p \in Migrators : mig[p].now = v /\ mig[p].pc \in {"record",
                      "unrecord"})
               PROVE  effect[v] = IF v \in recorded THEN 1 ELSE 0
    BY DEF RecordsAreTrue
  <2>1. CASE \E p \in Migrators : Before(p, v)
    <3>1. PICK p \in Migrators : Before(p, v)
      BY <2>1
    <3>2. Truth(p, v) /\ mig[p].pc \in MigPc
      BY <3>1 DEF MigrationInv, TruthInv, MigrationTypeOK
    <3>3. mig[p].pc = "unrecord" => mig[p].now = v
      BY <3>1 DEF MigrationInv, WorkInv, Before
    <3> QED BY <3>2, <3>3 DEF Truth, MigPc
  <2>2. CASE \A p \in Migrators : ~Before(p, v)
    BY <2>2 DEF MigrationInv, TruthInv
  <2> QED BY <2>1, <2>2
<1> QED BY <1>1, MigrationInvInit, MigrationInvStep, PTL DEF MigrationSpec


-----------------------------------------------------------------------------
(* The in-process cache *)

CallRecord == [pc : {"load", "callback", "check"} \cup Setting, kind : Calls, key : CacheKeys,
               version : Nat, raced : BOOLEAN, victim : CacheKeys]

CacheEntry == [version : Nat, raced : BOOLEAN, left : 0..NoTtl]

CacheTypeOK ==
    /\ db \in [CacheKeys -> Nat]
    /\ DOMAIN entries \subseteq CacheKeys /\ entries \in [DOMAIN entries -> CacheEntry]
    /\ call \in [Callers -> CallRecord \cup {AtRest}]
    /\ overlaps \in Nat

HasValue(c) == call[c].pc \in {"callback", "check"} \cup Setting

\* What a call has loaded is the present version, unless a write came since.
LoadedInv ==
    \A c \in Callers : HasValue(c) => call[c].version = db[call[c].key] \/ call[c].raced

\* The calls between check and insert, and those of them that set without expiry.
Inserters == {c \in Callers : InSet(c)}
Setters == {c \in Inserters : call[c].kind = "set"}

\* The entries that have no expiry.
Forever == {k \in DOMAIN entries : entries[k].left = NoTtl}

\* The places that are taken, or will be by the calls between check and insert.
Places == Cardinality(DOMAIN entries) + Cardinality(Inserters)

\* As things are, c is about to free a place, or to take none.
Gives(c) ==
    \/ call[c].pc \in {"contains", "expired", "oldest"}
    \/ call[c].pc = "evict" /\ call[c].victim \in DOMAIN entries
    \/ call[c].pc = "insert" /\ call[c].key \in DOMAIN entries

NobodyGives == \A c \in Inserters : ~Gives(c)

RoomInv ==
    /\ Places <= Capacity + overlaps + 1
    /\ NobodyGives => Places <= Capacity + overlaps
    /\ Inserters = {} => Cardinality(Forever) <= overlaps
    /\ Inserters # {} => Cardinality(Forever) + Cardinality(Setters) + Cardinality(Inserters) <= overlaps + 1

CacheInv == CacheTypeOK /\ LoadedInv /\ StaleOnlyByRace /\ RoomInv

LEMMA CacheInvInit == CacheInit => CacheInv
<1> SUFFICES ASSUME CacheInit PROVE CacheInv
  OBVIOUS
<1>1. DOMAIN entries = {} /\ entries \in [DOMAIN entries -> CacheEntry]
  BY DEF CacheInit
<1>2. CacheTypeOK
  BY <1>1 DEF CacheInit, CacheTypeOK
<1>3. \A c \in Callers : call[c].pc = "idle"
  BY DEF CacheInit, AtRest
<1>4. LoadedInv /\ StaleOnlyByRace
  BY <1>1, <1>3 DEF LoadedInv, HasValue, Setting, StaleOnlyByRace
<1>5. Inserters = {} /\ Forever = {}
  BY <1>1, <1>3 DEF Forever, Inserters, InSet, Setting
<1>6. RoomInv
  BY <1>1, <1>5, FS_EmptySet, CacheAssumption DEF RoomInv, Places, CacheInit
<1> QED BY <1>2, <1>4, <1>6 DEF CacheInv

LEMMA CallTypes ==
    ASSUME CacheTypeOK, NEW c \in Callers, call[c].pc # "idle"
    PROVE  call[c] \in CallRecord
<1>1. call[c] \in CallRecord \cup {AtRest}
  BY DEF CacheTypeOK
<1> QED BY <1>1 DEF AtRest

\* All that is counted is finite.
LEMMA RoomSizes ==
    ASSUME CacheTypeOK
    PROVE  /\ IsFiniteSet(DOMAIN entries) /\ Cardinality(DOMAIN entries) \in Nat
           /\ IsFiniteSet(Inserters) /\ Cardinality(Inserters) \in Nat
           /\ IsFiniteSet(Setters) /\ Cardinality(Setters) \in Nat
           /\ IsFiniteSet(Forever) /\ Cardinality(Forever) \in Nat
           /\ overlaps \in Nat /\ Capacity \in Nat /\ Capacity > 0
<1>1. Inserters \subseteq Callers /\ Setters \subseteq Callers
  BY DEF Inserters, Setters
<1>2. DOMAIN entries \subseteq CacheKeys /\ Forever \subseteq CacheKeys
  BY DEF CacheTypeOK, Forever
<1>3. IsFiniteSet(Inserters) /\ IsFiniteSet(Setters) /\ IsFiniteSet(DOMAIN entries) /\ IsFiniteSet(Forever)
  BY <1>1, <1>2, CacheAssumption, FS_Subset
<1> QED BY <1>3, FS_CardinalityType, CacheAssumption DEF CacheTypeOK

\* No call comes to its check or its insert, and no entry is added.
LEMMA RoomShrinks ==
    ASSUME CacheInv, CacheTypeOK', Inserters' = Inserters, Setters' = Setters, overlaps' = overlaps,
           DOMAIN entries' \subseteq DOMAIN entries, Forever' \subseteq Forever,
           DOMAIN entries' = DOMAIN entries /\ NobodyGives' => Places <= Capacity + overlaps
    PROVE  RoomInv'
<1> DEFINE e == Cardinality(DOMAIN entries)
           f == Cardinality(Forever)
           i == Cardinality(Inserters)
           s == Cardinality(Setters)
           e1 == Cardinality(DOMAIN entries')
           f1 == Cardinality(Forever')
<1>1. CacheTypeOK /\ RoomInv
  BY DEF CacheInv
<1>2. /\ IsFiniteSet(DOMAIN entries) /\ e \in Nat /\ IsFiniteSet(Forever) /\ f \in Nat
      /\ i \in Nat /\ s \in Nat /\ overlaps \in Nat /\ Capacity \in Nat
  BY <1>1, RoomSizes
<1>3. e1 <= e /\ f1 <= f /\ IsFiniteSet(DOMAIN entries') /\ IsFiniteSet(Forever')
  BY <1>2, FS_Subset
<1>4. e1 \in Nat /\ f1 \in Nat
  BY <1>3, FS_CardinalityType
<1>5. DOMAIN entries' = DOMAIN entries \/ e1 < e
  <2>1. e1 = e => DOMAIN entries' = DOMAIN entries
    BY <1>2, FS_Subset
  <2> HIDE DEF e, e1
  <2> QED BY <1>2, <1>3, <1>4, <2>1
<1>6. Places = e + i /\ Places' = e1 + i
  BY DEF Places
<1>7. /\ Places <= Capacity + overlaps + 1
      /\ Inserters = {} => f <= overlaps
      /\ Inserters # {} => f + s + i <= overlaps + 1
  BY <1>1 DEF RoomInv
<1>8. DOMAIN entries' = DOMAIN entries => e1 = e
  OBVIOUS
<1> HIDE DEF e, f, i, s, e1, f1
<1>9. Places' <= Capacity + overlaps + 1 /\ (NobodyGives' => Places' <= Capacity + overlaps)
  BY <1>2, <1>3, <1>4, <1>5, <1>6, <1>7, <1>8
<1>10. (Inserters = {} => f1 <= overlaps) /\ (Inserters # {} => f1 + s + i <= overlaps + 1)
  BY <1>2, <1>3, <1>4, <1>7
<1> QED BY <1>9, <1>10 DEF RoomInv, f1, s, i

\* With nobody between check and insert the capacity is respected, and with somebody too.
LEMMA RoomRespects ==
    ASSUME CacheInv
    PROVE  Cardinality(DOMAIN entries) <= Capacity + overlaps
<1>1. CacheTypeOK /\ RoomInv
  BY DEF CacheInv
<1>2. /\ Cardinality(DOMAIN entries) \in Nat /\ Cardinality(Inserters) \in Nat /\ IsFiniteSet(Inserters)
      /\ overlaps \in Nat /\ Capacity \in Nat
  BY <1>1, RoomSizes
<1>3. CASE Inserters = {}
  <2>1. NobodyGives /\ Cardinality(Inserters) = 0
    BY <1>3, FS_EmptySet DEF NobodyGives
  <2> QED BY <1>1, <1>2, <2>1 DEF RoomInv, Places
<1>4. CASE Inserters # {}
  <2>1. Cardinality(Inserters) # 0
    BY <1>2, <1>4, FS_EmptySet
  <2> QED BY <1>1, <1>2, <2>1 DEF RoomInv, Places
<1> QED BY <1>3, <1>4

\* Entries may have gone, the others are as they were.
Fewer == DOMAIN entries' \subseteq DOMAIN entries /\ entries' = [k \in DOMAIN entries' |-> entries[k]]

LEMMA WithoutIsFewer ==
    ASSUME NEW S, entries' = Without(S)
    PROVE  Fewer /\ DOMAIN entries' = DOMAIN entries \ S
  BY DEF Fewer, Without

LEMMA FewerEntries ==
    ASSUME CacheTypeOK, Fewer
    PROVE  /\ DOMAIN entries' \subseteq CacheKeys /\ entries' \in [DOMAIN entries' -> CacheEntry]
           /\ \A k \in DOMAIN entries' : k \in DOMAIN entries /\ entries'[k] = entries[k]
           /\ Forever' \subseteq Forever
  BY DEF CacheTypeOK, Fewer, Forever

LEMMA SameIsFewer ==
    ASSUME CacheTypeOK, entries' = entries
    PROVE  Fewer
  BY DEF CacheTypeOK, Fewer

\* A step of one call that loads, or looks for room, but neither begins nor ends its set.
LEMMA CallKeepsInv ==
    ASSUME CacheInv, NEW c \in Callers, NEW new \in CallRecord \cup {AtRest},
           call' = [call EXCEPT ![c] = new], Fewer, UNCHANGED <<db, writing, overlaps>>,
           new.pc \in {"callback", "check"} \cup Setting => new.version = db[new.key] \/ new.raced,
           new.pc \in Setting <=> call[c].pc \in Setting,
           call[c].pc \in Setting => new.kind = call[c].kind,
           DOMAIN entries' = DOMAIN entries /\ Gives(c) => Gives(c)' \/ Places <= Capacity + overlaps
    PROVE  CacheInv'
<1>1. CacheTypeOK'
  BY FewerEntries DEF CacheInv, CacheTypeOK
<1>2. \A d \in Callers : call'[d] = IF d = c THEN new ELSE call[d]
  BY DEF CacheInv, CacheTypeOK
<1>3. LoadedInv'
  BY <1>2 DEF CacheInv, LoadedInv, HasValue
<1>4. StaleOnlyByRace'
  BY FewerEntries DEF CacheInv, StaleOnlyByRace
<1>5. Inserters' = Inserters /\ Setters' = Setters
  BY <1>2 DEF Inserters, Setters, InSet
<1>6. ASSUME DOMAIN entries' = DOMAIN entries, NobodyGives' PROVE Places <= Capacity + overlaps
  <2>1. CASE NobodyGives
    BY <2>1 DEF CacheInv, RoomInv
  <2>2. CASE ~NobodyGives
    <3>1. PICK d \in Inserters : Gives(d)
      BY <2>2 DEF NobodyGives
    <3>2. ~Gives(d)'
      BY <1>5, <1>6 DEF NobodyGives
    <3>3. d \in Callers /\ (d # c => call'[d] = call[d])
      BY <1>2, <3>1 DEF Inserters
    <3>4. d = c
      BY <1>6, <3>1, <3>2, <3>3 DEF Gives
    <3> QED BY <1>6, <3>1, <3>2, <3>4
  <2> QED BY <2>1, <2>2
<1>7. RoomInv'
  BY <1>1, <1>5, <1>6, FewerEntries, RoomShrinks DEF CacheInv, Fewer
<1> QED BY <1>1, <1>3, <1>4, <1>7 DEF CacheInv

LEMMA GetKeepsInv ==
    ASSUME CacheInv, NEW c \in Callers, NEW kind \in Calls, NEW k \in CacheKeys, Get(c, kind, k)
    PROVE  CacheInv'
<1> DEFINE first == [pc |-> "load", kind |-> kind, key |-> k, version |-> 0, raced |-> FALSE, victim |-> k]
<1>1. Fewer
  BY SameIsFewer, WithoutIsFewer DEF Get, CacheInv
<1>2. UNCHANGED <<db, writing, overlaps>> /\ call[c] = AtRest /\ call \in [Callers -> CallRecord \cup {AtRest}]
  BY DEF Get, CacheInv, CacheTypeOK
<1>3. /\ AtRest.pc = "idle" /\ first \in CallRecord \cup {AtRest} /\ first.pc = "load"
      /\ "idle" \notin Setting /\ "load" \notin Setting
  BY DEF AtRest, CallRecord, Setting
<1>4. \/ call' = [call EXCEPT ![c] = AtRest]
      \/ call' = [call EXCEPT ![c] = first]
  BY <1>2 DEF Get
<1>5. ~Gives(c)
  BY <1>2, <1>3 DEF Gives
<1> HIDE DEF first
<1> QED BY <1>1, <1>2, <1>3, <1>4, <1>5, CallKeepsInv

LEMMA LoadKeepsInv ==
    ASSUME CacheInv, NEW c \in Callers, LoadValue(c) \/ OnMiss(c) \/ SetOnClone(c)
    PROVE  CacheInv'
<1>1. /\ UNCHANGED <<db, writing, overlaps>> /\ entries' = entries /\ CacheTypeOK
      /\ call[c].pc \in {"load", "callback", "check"} /\ call \in [Callers -> CallRecord \cup {AtRest}]
      /\ db \in [CacheKeys -> Nat]
  BY DEF LoadValue, OnMiss, SetOnClone, CacheInv, CacheTypeOK
<1>2. Fewer /\ call[c] \in CallRecord /\ call[c].pc \notin Setting /\ ~Gives(c)
  BY <1>1, SameIsFewer, CallTypes DEF Setting, Gives
<1>3. CASE call' = [call EXCEPT ![c] = AtRest]
  <2>1. AtRest.pc = "idle" /\ "idle" \notin {"callback", "check"} \cup Setting
    BY DEF AtRest, Setting
  <2> QED BY <1>1, <1>2, <1>3, <2>1, CallKeepsInv
<1>4. ASSUME NEW l \in {"callback", "check"},
             call' = [call EXCEPT ![c].pc = l, ![c].version = db[call[c].key]]
      PROVE  CacheInv'
  <2> DEFINE new == [call[c] EXCEPT !.pc = l, !.version = db[call[c].key]]
  <2>1. /\ new \in CallRecord \cup {AtRest} /\ new.pc \notin Setting
        /\ new.version = db[new.key]
    BY <1>1, <1>2 DEF CallRecord, Setting
  <2>2. call' = [call EXCEPT ![c] = new]
    BY <1>1, <1>4
  <2> HIDE DEF new
  <2> QED BY <1>1, <1>2, <2>1, <2>2, CallKeepsInv
<1>5. CASE OnMiss(c)
  <2> DEFINE new == [call[c] EXCEPT !.pc = "check"]
  <2>1. /\ new \in CallRecord \cup {AtRest} /\ new.pc \notin Setting
        /\ new.version = call[c].version /\ new.key = call[c].key /\ new.raced = call[c].raced
    BY <1>2 DEF CallRecord, Setting
  <2>2. call' = [call EXCEPT ![c] = new] /\ call[c].pc = "callback"
    BY <1>5 DEF OnMiss, Step
  <2>3. new.version = db[new.key] \/ new.raced
    BY <2>1, <2>2 DEF CacheInv, LoadedInv, HasValue
  <2> HIDE DEF new
  <2> QED BY <1>1, <1>2, <2>1, <2>2, <2>3, CallKeepsInv
<1> QED BY <1>3, <1>4, <1>5 DEF LoadValue, SetOnClone

\* If no entry is the closest to its expiry, none has one.
LEMMA NoVictims ==
    ASSUME CacheTypeOK, Oldest = {}
    PROVE  DOMAIN entries = Forever
<1> DEFINE lefts == {entries[k].left : k \in Timed}
<1>1. \A k \in DOMAIN entries : entries[k].left \in 0..NoTtl
  BY DEF CacheTypeOK, CacheEntry
<1>2. NoTtl \in Nat
  BY CacheAssumption DEF NoTtl
<1>3. Timed = {}
  <2> SUFFICES ASSUME Timed # {} PROVE FALSE
    OBVIOUS
  <2>1. lefts \in SUBSET Nat /\ lefts # {} /\ \A n \in lefts : n <= NoTtl
    BY <1>1, <1>2 DEF Timed
  <2>2. IsFiniteSet(lefts)
    BY <1>2, <2>1, FS_BoundedSetOfNaturals
  <2>3. PICK n \in lefts : \A m \in lefts : n <= m
    BY <2>1, <2>2, LeastExists
  <2>4. PICK k \in Timed : entries[k].left = n
    BY <2>3
  <2>5. k \in Oldest
    BY <2>3, <2>4 DEF Oldest
  <2> QED BY <2>5
<1> QED BY <1>3 DEF Forever, Timed

\* A call that looks for room, and evicts.
LEMMA RoomKeepsInv ==
    ASSUME CacheInv, NEW c \in Callers, CheckKey(c) \/ FindExpired(c) \/ FindOldest(c) \/ Evict(c)
    PROVE  CacheInv'
<1>1. /\ UNCHANGED <<db, writing, overlaps>> /\ CacheTypeOK /\ call[c].pc \in Setting /\ HasValue(c)
      /\ call \in [Callers -> CallRecord \cup {AtRest}]
  BY DEF CheckKey, FindExpired, FindOldest, Scan, Evict, CacheInv, CacheTypeOK, HasValue, Setting
<1>2. call[c] \in CallRecord /\ c \in Inserters
  BY <1>1, CallTypes DEF Inserters, InSet, Setting
<1>3. call[c].version = db[call[c].key] \/ call[c].raced
  BY <1>1 DEF CacheInv, LoadedInv
<1>4. ASSUME NEW l \in Setting, NEW v \in CacheKeys, Fewer,
             call' = [call EXCEPT ![c] = [call[c] EXCEPT !.pc = l, !.victim = v]],
             DOMAIN entries' = DOMAIN entries /\ Gives(c) => Gives(c)' \/ Places <= Capacity + overlaps
      PROVE  CacheInv'
  <2> DEFINE new == [call[c] EXCEPT !.pc = l, !.victim = v]
  <2>1. /\ new \in CallRecord \cup {AtRest} /\ new.pc = l /\ new.kind = call[c].kind
        /\ new.version = call[c].version /\ new.key = call[c].key /\ new.raced = call[c].raced
    BY <1>2, <1>4 DEF CallRecord
  <2>2. call' = [call EXCEPT ![c] = new]
    BY <1>4
  <2> HIDE DEF new
  <2> QED BY <1>1, <1>3, <1>4, <2>1, <2>2, CallKeepsInv
<1>5. ASSUME NEW l \in Setting, Step(c, l)
      PROVE  /\ call' = [call EXCEPT ![c] = [call[c] EXCEPT !.pc = l, !.victim = call[c].victim]]
             /\ call[c].victim \in CacheKeys
             /\ call'[c].pc = l /\ call'[c].key = call[c].key
  BY <1>1, <1>2, <1>5 DEF Step, CallRecord
<1>6. ASSUME NEW v \in DOMAIN entries, entries' = entries,
             call' = [call EXCEPT ![c].pc = "evict", ![c].victim = v]
      PROVE  CacheInv'
  <2>1. /\ call' = [call EXCEPT ![c] = [call[c] EXCEPT !.pc = "evict", !.victim = v]] /\ v \in CacheKeys
        /\ call'[c].pc = "evict" /\ call'[c].victim = v
    BY <1>1, <1>2, <1>6 DEF CacheTypeOK, CallRecord
  <2>2. Gives(c)' /\ "evict" \in Setting
    BY <1>6, <2>1 DEF Gives, Setting
  <2> QED BY <1>1, <1>4, <1>6, <2>1, <2>2, SameIsFewer
<1>7. CASE CheckKey(c)
  <2>1. PICK l \in {"insert", "expired"} : Step(c, l) /\ (l = "insert" => call[c].key \in DOMAIN entries)
    BY <1>7 DEF CheckKey
  <2>2. l \in Setting /\ entries' = entries
    BY <1>7 DEF CheckKey, Setting
  <2>3. Gives(c)'
    BY <1>5, <2>1, <2>2 DEF Gives
  <2> QED BY <1>1, <1>4, <1>5, <2>1, <2>2, <2>3, SameIsFewer
<1>8. CASE FindExpired(c)
  <2>1. entries' = entries /\ Dead \subseteq DOMAIN entries /\ "oldest" \in Setting
    BY <1>8 DEF FindExpired, Scan, Dead, Timed, Setting
  <2>2. CASE Step(c, "oldest")
    <3>1. Gives(c)'
      BY <1>5, <2>1, <2>2 DEF Gives
    <3> QED BY <1>1, <1>4, <1>5, <2>1, <2>2, <3>1, SameIsFewer
  <2> QED BY <1>6, <1>8, <2>1, <2>2 DEF FindExpired, Scan
<1>9. CASE FindOldest(c)
  <2>1. entries' = entries /\ Oldest \subseteq DOMAIN entries /\ "insert" \in Setting
    BY <1>9 DEF FindOldest, Scan, Oldest, Timed, Setting
  <2>2. CASE Oldest = {} /\ Step(c, "insert")
    <3>1. Cardinality(DOMAIN entries) = Cardinality(Forever)
      BY <1>1, <2>2, NoVictims
    <3>2. Cardinality(Forever) + Cardinality(Setters) + Cardinality(Inserters) <= overlaps + 1
      BY <1>2 DEF CacheInv, RoomInv
    <3>3. Places <= Capacity + overlaps
      BY <1>1, <3>1, <3>2, RoomSizes DEF Places
    <3> QED BY <1>1, <1>4, <1>5, <2>1, <2>2, <3>3, SameIsFewer
  <2> QED BY <1>6, <1>9, <2>1, <2>2 DEF FindOldest, Scan
<1>10. CASE Evict(c)
  <2>1. entries' = Without({call[c].victim}) /\ Step(c, "insert") /\ call[c].pc = "evict" /\ "insert" \in Setting
    BY <1>10 DEF Evict, Setting
  <2>2. Fewer /\ DOMAIN entries' = DOMAIN entries \ {call[c].victim}
    BY <2>1, WithoutIsFewer
  <2>3. ~(DOMAIN entries' = DOMAIN entries /\ Gives(c))
    BY <2>1, <2>2 DEF Gives
  <2> QED BY <1>4, <1>5, <2>1, <2>2, <2>3
<1> QED BY <1>7, <1>8, <1>9, <1>10

\* set_with_ttl() begins: the calls before it that have yet to insert are counted.
LEMMA CheckLenKeepsRoom ==
    ASSUME CacheInv, NEW c \in Callers, CheckLen(c)
    PROVE  RoomInv'
<1> DEFINE one == IF call[c].kind = "set" THEN 1 ELSE 0
           e == Cardinality(DOMAIN entries)
           i == Cardinality(Inserters)
           f == Cardinality(Forever)
           s == Cardinality(Setters)
           i1 == Cardinality(Inserters')
           s1 == Cardinality(Setters')
<1>1. /\ CacheTypeOK /\ RoomInv /\ entries' = entries /\ call[c].pc = "check"
      /\ call \in [Callers -> CallRecord \cup {AtRest}]
      /\ \E l \in {"contains", "insert"} : Step(c, l)
      /\ e >= Capacity => Step(c, "contains")
  BY DEF CacheInv, CacheTypeOK, CheckLen, Crowded
<1>2. overlaps' = overlaps + i + one /\ one \in {0, 1}
  BY DEF CheckLen, Inserters
<1>3. /\ e \in Nat /\ i \in Nat /\ f \in Nat /\ s \in Nat /\ overlaps \in Nat /\ Capacity \in Nat
      /\ IsFiniteSet(Inserters) /\ IsFiniteSet(Setters)
  BY <1>1, RoomSizes
<1>4. call[c] \in CallRecord
  BY <1>1, CallTypes
<1>5. /\ call'[c].pc \in {"contains", "insert"} /\ call'[c].kind = call[c].kind
      /\ \A d \in Callers : d # c => call'[d] = call[d]
      /\ e >= Capacity => call'[c].pc = "contains"
  BY <1>1, <1>4 DEF Step, CallRecord
<1>6. c \notin Inserters /\ c \notin Setters
  BY <1>1 DEF Inserters, Setters, InSet, Setting
<1>7. /\ Inserters' = Inserters \cup {c} /\ c \in Inserters'
      /\ Setters' = IF one = 1 THEN Setters \cup {c} ELSE Setters
  BY <1>1, <1>5 DEF Inserters, Setters, InSet, Setting
<1>8. i1 = i + 1
  BY <1>3, <1>6, <1>7, FS_AddElement
<1>9. s1 = s + one
  <2>1. CASE one = 1
    BY <1>3, <1>6, <1>7, <2>1, FS_AddElement
  <2>2. CASE one = 0
    <3>1. Setters' = Setters
      BY <1>7, <2>2
    <3> HIDE DEF one
    <3> QED BY <1>3, <2>2, <3>1
  <2> QED BY <1>2, <2>1, <2>2
<1>10. Places' = e + i1 /\ Forever' = Forever
  BY <1>1 DEF Places, Forever
<1>11. e <= Capacity + overlaps
  BY RoomRespects
<1>12. /\ Inserters = {} => f <= overlaps /\ s = 0 /\ i = 0
       /\ Inserters # {} => f + s + i <= overlaps + 1 /\ i # 0
  BY <1>1, <1>3, FS_EmptySet DEF RoomInv, Setters
<1>13. NobodyGives' => e < Capacity
  <2>1. e >= Capacity => Gives(c)'
    BY <1>5 DEF Gives
  <2> HIDE DEF e
  <2> QED BY <1>3, <1>7, <2>1 DEF NobodyGives
<1> HIDE DEF one, e, i, f, s, i1, s1
<1>14. Places' <= Capacity + overlaps' + 1
  BY <1>2, <1>3, <1>8, <1>10, <1>11
<1>15. NobodyGives' => Places' <= Capacity + overlaps'
  BY <1>2, <1>3, <1>8, <1>10, <1>13
<1>16. f + s1 + i1 <= overlaps' + 1
  BY <1>2, <1>3, <1>8, <1>9, <1>12
<1> QED BY <1>7, <1>10, <1>14, <1>15, <1>16 DEF RoomInv, f, s1, i1

LEMMA CheckLenKeepsInv ==
    ASSUME CacheInv, NEW c \in Callers, CheckLen(c)
    PROVE  CacheInv'
<1>1. /\ CacheTypeOK /\ overlaps \in Nat /\ call[c].pc = "check" /\ entries' = entries
      /\ call \in [Callers -> CallRecord \cup {AtRest}] /\ UNCHANGED <<db, writing>>
  BY DEF CacheInv, CacheTypeOK, CheckLen
<1>2. PICK l \in {"contains", "insert"} : Step(c, l)
  BY DEF CheckLen
<1>3. overlaps' \in Nat
  <2>1. overlaps' = overlaps + Cardinality(Inserters) + IF call[c].kind = "set" THEN 1 ELSE 0
    BY DEF CheckLen, Inserters
  <2> QED BY <1>1, <2>1, RoomSizes
<1>4. call[c] \in CallRecord
  BY <1>1, CallTypes
<1>5. call' \in [Callers -> CallRecord \cup {AtRest}]
  BY <1>1, <1>2, <1>4 DEF Step, CallRecord, Setting
<1>6. CacheTypeOK'
  BY <1>1, <1>3, <1>5 DEF CacheTypeOK
<1>7. /\ call'[c].version = call[c].version /\ call'[c].key = call[c].key /\ call'[c].raced = call[c].raced
      /\ \A d \in Callers : d # c => call'[d] = call[d]
  BY <1>1, <1>2, <1>4 DEF Step, CallRecord
<1>8. LoadedInv'
  BY <1>1, <1>7 DEF CacheInv, LoadedInv, HasValue
<1>9. StaleOnlyByRace'
  BY <1>1 DEF CacheInv, StaleOnlyByRace
<1> QED BY <1>6, <1>8, <1>9, CheckLenKeepsRoom DEF CacheInv

LEMMA AddOne ==
    ASSUME NEW S, IsFiniteSet(S), NEW x
    PROVE  IsFiniteSet(S \cup {x}) /\ Cardinality(S \cup {x}) <= Cardinality(S) + 1
<1>1. Cardinality(S) \in Nat
  BY FS_CardinalityType
<1> QED BY <1>1, FS_AddElement

LEMMA InsertKeepsInv ==
    ASSUME CacheInv, NEW c \in Callers, Insert(c)
    PROVE  CacheInv'
<1> DEFINE key == call[c].key
           new == [version |-> call[c].version, raced |-> call[c].raced,
                   left |-> IF call[c].kind = "set" THEN NoTtl ELSE Ttl + 1]
<1>1. /\ CacheTypeOK /\ call[c].pc = "insert" /\ call' = [call EXCEPT ![c] = AtRest]
      /\ call \in [Callers -> CallRecord \cup {AtRest}]
      /\ UNCHANGED <<db, writing, overlaps>> /\ Ttl \in Nat
  BY CacheAssumption DEF CacheInv, CacheTypeOK, Insert
<1>2. call[c] \in CallRecord /\ HasValue(c)
  BY <1>1, CallTypes DEF HasValue, Setting
<1>3. new \in CacheEntry /\ key \in CacheKeys /\ (new.left = NoTtl => call[c].kind = "set")
  BY <1>1, <1>2 DEF CallRecord, CacheEntry, NoTtl
<1>4. entries' = [k \in DOMAIN entries \cup {key} |-> IF k # key THEN entries[k] ELSE new]
  BY DEF Insert
<1>5. new.version = db[key] \/ new.raced
  BY <1>2 DEF CacheInv, LoadedInv
<1> HIDE DEF new
<1>6. /\ DOMAIN entries' = DOMAIN entries \cup {key} /\ entries'[key] = new
      /\ \A k \in DOMAIN entries' : k # key => k \in DOMAIN entries /\ entries'[k] = entries[k]
  BY <1>4
<1>7. CacheTypeOK'
  <2>1. entries' \in [DOMAIN entries' -> CacheEntry] /\ DOMAIN entries' \subseteq CacheKeys
    BY <1>1, <1>3, <1>4 DEF CacheTypeOK
  <2> QED BY <1>1, <2>1 DEF CacheTypeOK
<1>8. AtRest.pc = "idle" /\ \A d \in Callers : call'[d] = IF d = c THEN AtRest ELSE call[d]
  BY <1>1 DEF AtRest
<1>9. LoadedInv'
  BY <1>1, <1>8 DEF CacheInv, LoadedInv, HasValue, Setting
<1>10. StaleOnlyByRace'
  BY <1>1, <1>5, <1>6 DEF CacheInv, StaleOnlyByRace
<1>11. RoomInv'
  <2> DEFINE one == IF call[c].kind = "set" THEN 1 ELSE 0
             e == Cardinality(DOMAIN entries)
             i == Cardinality(Inserters)
             f == Cardinality(Forever)
             s == Cardinality(Setters)
             e1 == Cardinality(DOMAIN entries')
             i1 == Cardinality(Inserters')
             f1 == Cardinality(Forever')
             s1 == Cardinality(Setters')
  <2>1. /\ e \in Nat /\ i \in Nat /\ f \in Nat /\ s \in Nat /\ overlaps \in Nat /\ Capacity \in Nat
        /\ IsFiniteSet(Inserters) /\ IsFiniteSet(Setters) /\ IsFiniteSet(DOMAIN entries) /\ IsFiniteSet(Forever)
    BY <1>1, RoomSizes
  <2>2. /\ Inserters' = Inserters \ {c} /\ c \in Inserters
        /\ Setters' = Setters \ {c} /\ (c \in Setters <=> call[c].kind = "set")
    BY <1>1, <1>8 DEF Inserters, Setters, InSet, Setting
  <2>3. i1 = i - 1 /\ i1 \in Nat
    <3>1. i1 = i - 1 /\ IsFiniteSet(Inserters')
      BY <2>1, <2>2, FS_RemoveElement
    <3> QED BY <3>1, FS_CardinalityType
  <2>4. s1 = s - one /\ s1 \in Nat /\ one \in {0, 1}
    <3>1. CASE call[c].kind = "set"
      BY <2>1, <2>2, <3>1, FS_RemoveElement, FS_CardinalityType
    <3>2. CASE call[c].kind # "set"
      <4>1. Setters' = Setters
        BY <2>2, <3>2
      <4> QED BY <2>1, <3>2, <4>1
    <3> QED BY <3>1, <3>2
  <2>5. f1 <= f + one /\ f1 \in Nat
    <3>1. Forever' \subseteq IF one = 1 THEN Forever \cup {key} ELSE Forever
      BY <1>3, <1>6 DEF Forever
    <3>2. CASE one = 1
      <4>1. IsFiniteSet(Forever \cup {key}) /\ Cardinality(Forever \cup {key}) <= f + 1
        BY <2>1, AddOne
      <4>2. IsFiniteSet(Forever') /\ f1 <= Cardinality(Forever \cup {key})
        BY <3>1, <3>2, <4>1, FS_Subset
      <4>3. f1 \in Nat /\ Cardinality(Forever \cup {key}) \in Nat
        BY <4>1, <4>2, FS_CardinalityType
      <4> HIDE DEF f, f1, one
      <4> QED BY <2>1, <3>2, <4>1, <4>2, <4>3
    <3>3. CASE one = 0
      <4>1. Forever' \subseteq Forever
        BY <3>1, <3>3
      <4>2. IsFiniteSet(Forever') /\ f1 <= f
        BY <2>1, <4>1, FS_Subset
      <4>3. f1 \in Nat
        BY <4>2, FS_CardinalityType
      <4> HIDE DEF f, f1, one
      <4> QED BY <2>1, <3>3, <4>2, <4>3
    <3> QED BY <2>4, <3>2, <3>3
  <2>6. /\ Places <= Capacity + overlaps + 1 /\ (NobodyGives => Places <= Capacity + overlaps)
        /\ f + s + i <= overlaps + 1
    BY <2>2 DEF CacheInv, RoomInv
  <2>7. Places = e + i /\ Places' = e1 + i1
    BY DEF Places
  <2>8. CASE key \in DOMAIN entries
    <3>1. e1 = e
      <4>1. DOMAIN entries' = DOMAIN entries
        BY <1>6, <2>8
      <4> QED BY <4>1
    <3> HIDE DEF e, e1, i, i1, f, f1, s, s1, one
    <3>2. Places' <= Capacity + overlaps
      BY <2>1, <2>3, <2>6, <2>7, <3>1
    <3>3. f1 + s1 + i1 <= overlaps
      BY <2>1, <2>3, <2>4, <2>5, <2>6
    <3>4. f1 <= overlaps /\ Places' <= Capacity + overlaps + 1 /\ f1 + s1 + i1 <= overlaps + 1
      BY <2>1, <2>3, <2>4, <2>5, <2>7, <3>1, <3>2, <3>3
    <3> QED BY <1>1, <3>2, <3>4 DEF RoomInv, f1, s1, i1
  <2>9. CASE key \notin DOMAIN entries
    <3>1. e1 = e + 1
      <4>1. Cardinality(DOMAIN entries \cup {key}) = e + 1
        BY <2>1, <2>9, FS_AddElement
      <4> QED BY <1>6, <4>1
    <3>2. NobodyGives' => NobodyGives
      <4> SUFFICES ASSUME NEW d \in Inserters, Gives(d) PROVE d \in Inserters' /\ Gives(d)'
        BY DEF NobodyGives
      <4>1. d # c /\ d \in Callers
        BY <1>1, <2>9 DEF Gives, Inserters
      <4>2. call'[d] = call[d] /\ d \in Inserters'
        BY <1>8, <2>2, <4>1
      <4> QED BY <1>6, <4>2 DEF Gives
    <3> HIDE DEF e, e1, i, i1, f, f1, s, s1, one
    <3>3. Places' <= Capacity + overlaps + 1 /\ (NobodyGives' => Places' <= Capacity + overlaps)
      BY <2>1, <2>3, <2>6, <2>7, <3>1, <3>2
    <3>4. f1 + s1 + i1 <= overlaps
      BY <2>1, <2>3, <2>4, <2>5, <2>6
    <3>5. f1 <= overlaps /\ f1 + s1 + i1 <= overlaps + 1
      BY <2>1, <2>3, <2>4, <2>5, <3>4
    <3> QED BY <1>1, <3>3, <3>5 DEF RoomInv, f1, s1, i1
  <2> QED BY <2>8, <2>9
<1> QED BY <1>7, <1>9, <1>10, <1>11 DEF CacheInv

LEMMA WriteKeepsInv ==
    ASSUME CacheInv, NEW k \in CacheKeys, Write(k)
    PROVE  CacheInv'
<1>1. /\ db' = [db EXCEPT ![k] = @ + 1] /\ writing' = writing \cup {k} /\ UNCHANGED <<entries, overlaps>>
      /\ db \in [CacheKeys -> Nat] /\ call \in [Callers -> CallRecord \cup {AtRest}] /\ CacheTypeOK
  BY DEF CacheInv, CacheTypeOK, Write
<1>2. \A c \in Callers : call'[c] = IF HasValue(c) /\ call[c].key = k
                                    THEN [call[c] EXCEPT !.raced = TRUE] ELSE call[c]
  BY DEF Write, HasValue
<1>3. ASSUME NEW c \in Callers
      PROVE  /\ call'[c] \in CallRecord \cup {AtRest} /\ call'[c].pc = call[c].pc
             /\ call[c].pc # "idle" => call'[c].key = call[c].key /\ call'[c].kind = call[c].kind
             /\ call[c].pc # "idle" => call'[c].version = call[c].version /\ call'[c].victim = call[c].victim
             /\ HasValue(c) /\ call[c].key = k => call'[c].raced
             /\ HasValue(c) /\ call[c].key # k => call'[c] = call[c]
  <2>1. CASE HasValue(c) /\ call[c].key = k
    <3>1. call[c] \in CallRecord /\ call'[c] = [call[c] EXCEPT !.raced = TRUE]
      BY <1>1, <1>2, <2>1, CallTypes DEF HasValue, Setting
    <3> QED BY <2>1, <3>1 DEF CallRecord
  <2>2. CASE ~ (HasValue(c) /\ call[c].key = k)
    <3>1. call'[c] = call[c] /\ call[c] \in CallRecord \cup {AtRest}
      BY <1>1, <1>2, <2>2
    <3> QED BY <2>2, <3>1
  <2> QED BY <2>1, <2>2
<1>4. call' \in [Callers -> CallRecord \cup {AtRest}]
  <2>1. call' = [c \in Callers |-> call'[c]]
    BY DEF Write
  <2> QED BY <1>3, <2>1
<1>5. CacheTypeOK'
  BY <1>1, <1>4 DEF CacheTypeOK
<1>6. LoadedInv'
  <2> SUFFICES ASSUME NEW c \in Callers, HasValue(c)'
               PROVE  call'[c].version = db'[call'[c].key] \/ call'[c].raced
    BY DEF LoadedInv
  <2>1. HasValue(c)
    BY <1>3 DEF HasValue
  <2>2. call[c] \in CallRecord
    BY <1>1, <2>1, CallTypes DEF HasValue, Setting
  <2>3. CASE call[c].key = k
    BY <1>3, <2>1, <2>3
  <2>4. CASE call[c].key # k
    <3>1. call'[c] = call[c] /\ call[c].key \in CacheKeys /\ db'[call[c].key] = db[call[c].key]
      BY <1>1, <1>3, <2>1, <2>2, <2>4 DEF CallRecord
    <3> QED BY <2>1, <3>1 DEF CacheInv, LoadedInv
  <2> QED BY <2>3, <2>4
<1>7. StaleOnlyByRace'
  <2>1. ASSUME NEW j \in DOMAIN entries \ writing' PROVE j \in DOMAIN entries \ writing /\ db'[j] = db[j]
    BY <1>1 DEF CacheTypeOK
  <2> QED BY <1>1, <2>1 DEF CacheInv, StaleOnlyByRace
<1>8. Inserters' = Inserters /\ \A c \in Inserters : c \in Callers /\ call[c].pc # "idle"
  BY <1>3 DEF Inserters, InSet, Setting
<1>9. Setters' = Setters /\ Forever' = Forever
  BY <1>1, <1>3, <1>8 DEF Setters, Forever
<1>10. NobodyGives' => NobodyGives
  <2> SUFFICES ASSUME NEW c \in Inserters, Gives(c) PROVE Gives(c)'
    BY <1>8 DEF NobodyGives
  <2>1. /\ call'[c].pc = call[c].pc /\ call'[c].key = call[c].key /\ call'[c].victim = call[c].victim
    BY <1>3, <1>8
  <2> QED BY <1>1, <2>1 DEF Gives
<1>11. RoomInv'
  BY <1>1, <1>5, <1>8, <1>9, <1>10, RoomShrinks DEF CacheInv, RoomInv
<1> QED BY <1>5, <1>6, <1>7, <1>11 DEF CacheInv

\* delete(), clear() and the passing of time change the entries only.
LEMMA EntriesKeepInv ==
    ASSUME CacheInv, Clear \/ CacheTick \/ \E k \in CacheKeys : Delete(k)
    PROVE  CacheInv'
<1>1. UNCHANGED <<db, call, overlaps>> /\ CacheTypeOK /\ Ttl \in Nat
  BY CacheAssumption DEF Clear, CacheTick, Delete, CacheInv
<1>2. LoadedInv'
  BY <1>1 DEF CacheInv, LoadedInv, HasValue
<1>3. Inserters' = Inserters /\ Setters' = Setters
  BY <1>1 DEF Inserters, Setters, InSet
<1>a. ASSUME DOMAIN entries' = DOMAIN entries, NobodyGives' PROVE Places <= Capacity + overlaps
  <2>1. NobodyGives
    BY <1>1, <1>3, <1>a DEF NobodyGives, Gives
  <2> QED BY <2>1 DEF CacheInv, RoomInv
<1>4. ASSUME Fewer, \A k \in DOMAIN entries' : k \notin writing' => k \notin writing PROVE CacheInv'
  <2>1. CacheTypeOK'
    BY <1>1, <1>4, FewerEntries DEF CacheTypeOK
  <2>2. StaleOnlyByRace'
    BY <1>1, <1>4, FewerEntries DEF CacheInv, StaleOnlyByRace
  <2>3. RoomInv'
    BY <1>1, <1>3, <1>4, <1>a, <2>1, FewerEntries, RoomShrinks DEF Fewer
  <2> QED BY <1>2, <2>1, <2>2, <2>3 DEF CacheInv
<1>5. CASE Clear
  <2>1. DOMAIN entries' = {} /\ entries' = [k \in DOMAIN entries' |-> entries[k]]
    BY <1>5 DEF Clear
  <2> QED BY <1>4, <2>1 DEF Fewer
<1>6. ASSUME NEW k \in CacheKeys, Delete(k) PROVE CacheInv'
  <2>1. entries' = Without({k}) /\ writing' = writing \ {k}
    BY <1>6 DEF Delete
  <2>2. Fewer /\ k \notin DOMAIN entries'
    BY <2>1, WithoutIsFewer
  <2> QED BY <1>4, <2>1, <2>2
<1>7. CASE CacheTick
  <2>1. /\ writing' = writing
        /\ entries' = [k \in DOMAIN entries |->
             [entries[k] EXCEPT !.left = IF entries[k].left \in 1..(Ttl + 1) THEN entries[k].left - 1 ELSE entries[k].left]]
    BY <1>7 DEF CacheTick
  <2>2. DOMAIN entries' = DOMAIN entries
    BY <2>1
  <2>3. ASSUME NEW k \in DOMAIN entries
        PROVE  /\ entries'[k] \in CacheEntry /\ entries'[k].version = entries[k].version
               /\ entries'[k].raced = entries[k].raced /\ (entries'[k].left = NoTtl => entries[k].left = NoTtl)
    <3>1. entries[k] \in CacheEntry
      BY <1>1 DEF CacheTypeOK
    <3> QED BY <1>1, <2>1, <3>1 DEF CacheEntry, NoTtl
  <2>4. CacheTypeOK'
    <3>1. entries' \in [DOMAIN entries' -> CacheEntry]
      BY <2>1, <2>2, <2>3
    <3> QED BY <1>1, <2>2, <3>1 DEF CacheTypeOK
  <2>5. StaleOnlyByRace'
    BY <1>1, <2>1, <2>2, <2>3 DEF CacheInv, StaleOnlyByRace
  <2>6. Forever' \subseteq Forever
    BY <2>2, <2>3 DEF Forever
  <2>7. RoomInv'
    BY <1>1, <1>3, <1>a, <2>2, <2>4, <2>6, RoomShrinks
  <2> QED BY <1>2, <2>4, <2>5, <2>7 DEF CacheInv
<1> QED BY <1>5, <1>6, <1>7

LEMMA CacheInvStep == CacheInv /\ [CacheNext]_cacheVars => CacheInv'
<1> SUFFICES ASSUME CacheInv, [CacheNext]_cacheVars PROVE CacheInv'
  OBVIOUS
<1>1. ASSUME NEW c \in Callers,
             \/ \E kind \in Calls, k \in CacheKeys : Get(c, kind, k)
             \/ LoadValue(c) \/ OnMiss(c) \/ SetOnClone(c)
             \/ CheckLen(c) \/ CheckKey(c) \/ FindExpired(c) \/ FindOldest(c) \/ Evict(c) \/ Insert(c)
      PROVE  CacheInv'
  BY <1>1, GetKeepsInv, LoadKeepsInv, CheckLenKeepsInv, RoomKeepsInv, InsertKeepsInv
<1>2. ASSUME NEW k \in CacheKeys, Write(k) \/ Delete(k) PROVE CacheInv'
  BY <1>2, WriteKeepsInv, EntriesKeepInv
<1>3. CASE Clear \/ CacheTick
  BY <1>3, EntriesKeepInv
<1>4. CASE UNCHANGED cacheVars
  <2>1. CacheTypeOK' /\ LoadedInv' /\ StaleOnlyByRace'
    BY <1>4 DEF cacheVars, CacheInv, CacheTypeOK, LoadedInv, HasValue, StaleOnlyByRace
  <2>2. Inserters' = Inserters /\ Setters' = Setters /\ Forever' = Forever
    BY <1>4 DEF cacheVars, Forever, Setters, Inserters, InSet
  <2>3. NobodyGives' => NobodyGives
    BY <1>4, <2>2 DEF cacheVars, NobodyGives, Gives
  <2>4. RoomInv'
    BY <1>4, <2>1, <2>2, <2>3, RoomShrinks DEF cacheVars, CacheInv, RoomInv
  <2> QED BY <2>1, <2>4 DEF CacheInv
<1> QED BY <1>1, <1>2, <1>3, <1>4 DEF CacheNext

(***************************************************************************)
(* For any keys, callers, capacity and TTL: the cache exceeds its capacity *)
(* only by the sets that overlapped or have no expiry, and serves an old   *)
(* version only by the race of a load with a write.                        *)
(***************************************************************************)
THEOREM CacheAsideTheorem == CacheSpec => []CacheAsideSound
<1>1. CacheInv => CacheAsideSound
  BY RoomRespects DEF CacheInv, CacheAsideSound, CapacityRespected
<1> QED BY <1>1, CacheInvInit, CacheInvStep, PTL DEF CacheSpec


-----------------------------------------------------------------------------
(* The bookstore's RPC services *)

BookRequest == [pc : {"new", "miss", "fill", "listing", "listed", "publish", "clear", "done"},
                book : Titles \cup {Gone},
                stock : Int \cup SUBSET Titles, raced : BOOLEAN]

BooksTypeOK ==
    /\ shelf \in [Titles -> Int]
    /\ bk \in [BkRequests -> BookRequest]
    /\ DOMAIN bookCopy = Titles

\* What a request holds to cache is the present stock, unless a change came since.
HeldInv ==
    \A r \in BkRequests :
        /\ bk[r].pc = "miss" => bk[r].book \in Titles
        /\ bk[r].pc \in {"fill", "publish"} =>
              bk[r].book \in Titles /\ (bk[r].stock = shelf[bk[r].book] \/ bk[r].raced)

BooksInv == BooksTypeOK /\ HeldInv /\ StaleBookOnlyByRace

OrderRequest == [pc : {"new", "created", "notify", "done"}, order : OrRequests]

OrderNotice == {"order.created", "order.cancelled"} \X OrRequests

OrdersTypeOK ==
    /\ orderDb \in [OrRequests -> {"none", "Confirmed", "Cancelled"}]
    /\ od \in [OrRequests -> OrderRequest]
    /\ notices \in Seq(OrderNotice)

Told(kind, o) == \E i \in 1..Len(notices) : notices[i] = <<kind, o>>

\* Whoever is about to tell something has done it, and nobody has told it yet.
TellInv ==
    \A r \in OrRequests :
        /\ od[r].pc = "new" => orderDb[r] = "none"
        /\ od[r].pc = "created" => orderDb[r] # "none"
        /\ Told("order.created", r) => od[r].pc = "done"
        /\ od[r].pc = "notify" => /\ orderDb[od[r].order] = "Cancelled"
                                  /\ ~Told("order.cancelled", od[r].order)
        /\ \A q \in OrRequests : od[r].pc = "notify" /\ od[q].pc = "notify" => q = r

OrdersInv == OrdersTypeOK /\ TellInv /\ OrderNoticesSound


DoneRequest == [Free EXCEPT !.pc = "done"]

LEMMA FreeType == Free \in BookRequest /\ Free.pc = "new"
  BY DEF Free, BookRequest, Gone

LEMMA DoneType ==
    /\ DoneRequest \in BookRequest /\ DoneRequest.pc = "done"
    /\ \A r, held : BkDone(r, held) = [held EXCEPT ![r] = DoneRequest]
<1>1. DoneRequest \in BookRequest /\ DoneRequest.pc = "done"
  BY FreeType DEF DoneRequest, BookRequest
<1> QED BY <1>1 DEF BkDone, DoneRequest

LEMMA ClearedSound ==
    ASSUME bookCopy' = Cleared
    PROVE  DOMAIN bookCopy' = Titles /\ StaleBookOnlyByRace'
  BY DEF Cleared, StaleBookOnlyByRace

\* A step of r that changes no stock; a request that has something to clear still has.
LEMMA BookStep ==
    ASSUME BooksInv, NEW r \in BkRequests, NEW new \in BookRequest, bk' = [bk EXCEPT ![r] = new],
           shelf' = shelf, DOMAIN bookCopy' = Titles,
           new.pc = "miss" => new.book \in Titles,
           new.pc \in {"fill", "publish"} => new.book \in Titles /\ (new.stock = shelf[new.book] \/ new.raced)
    PROVE  /\ BooksTypeOK' /\ HeldInv'
           /\ bookCopy' = bookCopy /\ bk[r].pc \notin {"publish", "clear"} => StaleBookOnlyByRace'
<1>1. BooksTypeOK'
  BY DEF BooksInv, BooksTypeOK
<1>2. \A q \in BkRequests : bk'[q] = IF q = r THEN new ELSE bk[q]
  BY DEF BooksInv, BooksTypeOK
<1>3. HeldInv'
  BY <1>2 DEF BooksInv, HeldInv
<1>4. bookCopy' = bookCopy /\ bk[r].pc \notin {"publish", "clear"} => StaleBookOnlyByRace'
  BY <1>2 DEF BooksInv, StaleBookOnlyByRace
<1> QED BY <1>1, <1>3, <1>4

\* A step of r that changes the stock of b: the copies that others hold are old.
LEMMA StockStep ==
    ASSUME BooksInv, NEW r \in BkRequests, NEW new \in BookRequest, NEW b \in Titles, NEW n \in Int,
           shelf' = [shelf EXCEPT ![b] = n], bk' = [Outdate(b) EXCEPT ![r] = new],
           DOMAIN bookCopy' = Titles,
           new.pc # "miss", new.pc \in {"fill", "publish"} => new.book = b /\ new.stock = n
    PROVE  /\ BooksTypeOK' /\ HeldInv'
           /\ (bookCopy' = bookCopy /\ new.book = b /\ new.pc \in {"publish", "clear"}
                 /\ bk[r].pc \notin {"publish", "clear"}) => StaleBookOnlyByRace'
<1>1. shelf \in [Titles -> Int] /\ bk \in [BkRequests -> BookRequest]
  BY DEF BooksInv, BooksTypeOK
<1>2. ASSUME NEW q \in BkRequests
      PROVE  /\ Outdate(b)[q] \in BookRequest /\ Outdate(b)[q].pc = bk[q].pc /\ Outdate(b)[q].book = bk[q].book
             /\ bk[q].book = b => Outdate(b)[q].raced
             /\ bk[q].book # b => Outdate(b)[q] = bk[q]
  <2>1. bk[q] \in BookRequest /\ Outdate(b)[q] = IF bk[q].book = b THEN [bk[q] EXCEPT !.raced = TRUE] ELSE bk[q]
    BY <1>1 DEF Outdate
  <2> QED BY <2>1 DEF BookRequest
<1>3. DOMAIN Outdate(b) = BkRequests
  BY DEF Outdate
<1>4. \A q \in BkRequests : bk'[q] = IF q = r THEN new ELSE Outdate(b)[q]
  BY <1>3
<1>5. bk' \in [BkRequests -> BookRequest]
  <2>1. Outdate(b) \in [BkRequests -> BookRequest]
    BY <1>2 DEF Outdate
  <2> QED BY <2>1
<1>6. BooksTypeOK'
  BY <1>1, <1>5 DEF BooksTypeOK
<1>7. \A t \in Titles : shelf'[t] = IF t = b THEN n ELSE shelf[t]
  BY <1>1
<1>8. HeldInv'
  <2> SUFFICES ASSUME NEW q \in BkRequests
               PROVE  /\ bk'[q].pc = "miss" => bk'[q].book \in Titles
                      /\ bk'[q].pc \in {"fill", "publish"} =>
                            bk'[q].book \in Titles /\ (bk'[q].stock = shelf'[bk'[q].book] \/ bk'[q].raced)
    BY DEF HeldInv
  <2>1. CASE q = r
    BY <1>4, <1>7, <2>1
  <2>2. CASE q # r /\ bk[q].book = b
    BY <1>2, <1>4, <2>2
  <2>3. CASE q # r /\ bk[q].book # b
    <3>1. bk'[q] = bk[q]
      BY <1>2, <1>4, <2>3
    <3> QED BY <1>7, <2>3, <3>1 DEF BooksInv, HeldInv
  <2> QED BY <2>1, <2>2, <2>3
<1>9. ASSUME bookCopy' = bookCopy, new.book = b, new.pc \in {"publish", "clear"}, bk[r].pc \notin {"publish", "clear"}
      PROVE  StaleBookOnlyByRace'
  <2> SUFFICES ASSUME NEW t \in Titles, bookCopy[t] # NoCopy
               PROVE  \/ bookCopy[t].stock = shelf'[t] \/ bookCopy[t].raced
                      \/ \E q \in BkRequests : bk'[q].book = t /\ bk'[q].pc \in {"publish", "clear"}
    BY <1>9 DEF StaleBookOnlyByRace
  <2>1. CASE t = b
    BY <1>4, <1>9, <2>1
  <2>2. CASE t # b
    <3>1. shelf'[t] = shelf[t]
      BY <1>7, <2>2
    <3>2. ASSUME NEW q \in BkRequests, bk[q].book = t, bk[q].pc \in {"publish", "clear"}
          PROVE  bk'[q].book = t /\ bk'[q].pc \in {"publish", "clear"}
      BY <1>2, <1>4, <1>9, <3>2
    <3> QED BY <3>1, <3>2 DEF BooksInv, StaleBookOnlyByRace
  <2> QED BY <2>1, <2>2
<1> QED BY <1>6, <1>8, <1>9

LEMMA BooksInvInit == ServicesInit => BooksInv
<1> SUFFICES ASSUME ServicesInit PROVE BooksInv
  OBVIOUS
<1>1. Free \in BookRequest /\ Free.pc = "new"
  BY FreeType
<1>2. shelf \in [Titles -> Int]
  <2>1. shelf \in [Titles -> Amounts \ {0}] /\ Amounts \ {0} \subseteq Int
    BY ServicesAssumption DEF ServicesInit
  <2> QED BY <2>1
<1>3. BooksTypeOK
  BY <1>1, <1>2 DEF ServicesInit, BooksTypeOK, Cleared
<1>4. HeldInv /\ StaleBookOnlyByRace
  BY <1>1 DEF ServicesInit, HeldInv, StaleBookOnlyByRace, Cleared
<1> QED BY <1>3, <1>4 DEF BooksInv

LEMMA ReadsKeepBooksInv ==
    ASSUME BooksInv, NEW r \in BkRequests,
           \/ ReadShelf(r) \/ Fill(r) \/ ListCopy(r) \/ ReadList(r) \/ FillList(r)
           \/ Publish(r) \/ ClearCopies(r) \/ \E b \in Titles : GetCopy(r, b)
    PROVE  BooksInv'
<1>1. /\ shelf' = shelf /\ shelf \in [Titles -> Int] /\ bk \in [BkRequests -> BookRequest] /\ bk[r] \in BookRequest
      /\ DOMAIN bookCopy = Titles
  BY DEF ReadShelf, Fill, ListCopy, ReadList, FillList, Publish, ClearCopies, GetCopy, BooksInv, BooksTypeOK
<1>2. ASSUME NEW b \in Titles, GetCopy(r, b) PROVE BooksInv'
  <2> DEFINE new == [Free EXCEPT !.pc = "miss", !.book = b]
  <2>1. bookCopy' = bookCopy /\ bk[r].pc = "new" /\ (bk' = [bk EXCEPT ![r] = DoneRequest] \/ bk' = [bk EXCEPT ![r] = new])
    BY <1>2, DoneType DEF GetCopy
  <2>2. new \in BookRequest /\ new.pc = "miss" /\ new.book \in Titles /\ DOMAIN bookCopy' = Titles
    BY <1>1, <2>1, FreeType DEF BookRequest
  <2> HIDE DEF new
  <2>3. CASE bk' = [bk EXCEPT ![r] = DoneRequest]
    BY <1>1, <2>1, <2>2, <2>3, BookStep, DoneType DEF BooksInv
  <2>4. CASE bk' = [bk EXCEPT ![r] = new]
    BY <1>1, <2>1, <2>2, <2>4, BookStep DEF BooksInv
  <2> QED BY <2>1, <2>3, <2>4
<1>a. CASE ReadShelf(r)
  <2> DEFINE new == [bk[r] EXCEPT !.pc = "fill", !.stock = shelf[bk[r].book], !.raced = FALSE]
  <2>1. bookCopy' = bookCopy /\ bk[r].pc = "miss" /\ (bk' = [bk EXCEPT ![r] = DoneRequest] \/ bk' = [bk EXCEPT ![r] = new])
    BY <1>a, DoneType DEF ReadShelf
  <2>2. bk[r].book \in Titles
    BY <2>1 DEF BooksInv, HeldInv
  <2>3. new \in BookRequest /\ new.pc = "fill" /\ new.book \in Titles /\ new.stock = shelf[new.book] /\ DOMAIN bookCopy' = Titles
    BY <1>1, <2>1, <2>2 DEF BookRequest
  <2> HIDE DEF new
  <2>4. CASE bk' = [bk EXCEPT ![r] = DoneRequest]
    BY <1>1, <2>1, <2>3, <2>4, BookStep, DoneType DEF BooksInv
  <2>5. CASE bk' = [bk EXCEPT ![r] = new]
    BY <1>1, <2>1, <2>3, <2>5, BookStep DEF BooksInv
  <2> QED BY <2>1, <2>4, <2>5
<1>3. CASE Fill(r)
  <2>1. /\ bk[r].pc = "fill" /\ bk' = [bk EXCEPT ![r] = DoneRequest]
        /\ bookCopy' = [bookCopy EXCEPT ![bk[r].book] = [stock |-> bk[r].stock, raced |-> bk[r].raced]]
    BY <1>3, DoneType DEF Fill
  <2>2. BooksTypeOK' /\ HeldInv'
    BY <1>1, <2>1, BookStep, DoneType
  <2>3. bk[r].book \in Titles /\ (bk[r].stock = shelf[bk[r].book] \/ bk[r].raced)
    BY <2>1 DEF BooksInv, HeldInv
  <2>4. ASSUME NEW t \in Titles, bookCopy'[t] # NoCopy
        PROVE  \/ bookCopy'[t].stock = shelf[t] \/ bookCopy'[t].raced
               \/ \E q \in BkRequests : bk'[q].book = t /\ bk'[q].pc \in {"publish", "clear"}
    <3>1. CASE t = bk[r].book
      BY <1>1, <2>1, <2>3, <3>1
    <3>2. CASE t # bk[r].book
      <4>1. bookCopy'[t] = bookCopy[t]
        BY <1>1, <2>1, <3>2
      <4>2. \A q \in BkRequests : bk[q].pc \in {"publish", "clear"} => bk'[q] = bk[q]
        BY <1>1, <2>1
      <4> QED BY <2>4, <4>1, <4>2 DEF BooksInv, StaleBookOnlyByRace
    <3> QED BY <3>1, <3>2
  <2> QED BY <1>1, <2>2, <2>4 DEF BooksInv, StaleBookOnlyByRace
<1>4. CASE ListCopy(r) \/ ReadList(r) \/ FillList(r)
  <2> DEFINE listing == [bk[r] EXCEPT !.pc = "listing"]
             listed == [bk[r] EXCEPT !.pc = "listed", !.stock = {b \in Titles : shelf[b] # Gone}]
  <2>1. /\ bookCopy' = bookCopy /\ bk[r].pc \in {"new", "listing", "listed"}
        /\ \/ bk' = [bk EXCEPT ![r] = DoneRequest] \/ bk' = [bk EXCEPT ![r] = listing]
           \/ bk' = [bk EXCEPT ![r] = listed]
    BY <1>4, DoneType DEF ListCopy, ReadList, FillList
  <2>2. /\ listing \in BookRequest /\ listing.pc = "listing" /\ DOMAIN bookCopy' = Titles
        /\ listed \in BookRequest /\ listed.pc = "listed"
    BY <1>1, <2>1 DEF BookRequest
  <2> HIDE DEF listing, listed
  <2>3. CASE bk' = [bk EXCEPT ![r] = DoneRequest]
    BY <1>1, <2>1, <2>2, <2>3, BookStep, DoneType DEF BooksInv
  <2>4. CASE bk' = [bk EXCEPT ![r] = listing]
    BY <1>1, <2>1, <2>2, <2>4, BookStep DEF BooksInv
  <2>5. CASE bk' = [bk EXCEPT ![r] = listed]
    BY <1>1, <2>1, <2>2, <2>5, BookStep DEF BooksInv
  <2> QED BY <2>1, <2>3, <2>4, <2>5
<1>5. CASE Publish(r)
  <2> DEFINE new == [bk[r] EXCEPT !.pc = "clear"]
  <2>1. /\ bk[r].pc = "publish" /\ bk' = [bk EXCEPT ![r] = new]
        /\ bookCopy' = [bookCopy EXCEPT ![bk[r].book] = [stock |-> bk[r].stock, raced |-> bk[r].raced]]
    BY <1>5 DEF Publish
  <2>2. new \in BookRequest /\ new.pc = "clear" /\ new.book = bk[r].book /\ DOMAIN bookCopy' = Titles
    BY <1>1, <2>1 DEF BookRequest
  <2> HIDE DEF new
  <2>3. BooksTypeOK' /\ HeldInv'
    BY <1>1, <2>1, <2>2, BookStep
  <2>4. \A q \in BkRequests : bk[q].pc \in {"publish", "clear"} => bk'[q].pc \in {"publish", "clear"} /\ bk'[q].book = bk[q].book
    BY <1>1, <2>1, <2>2
  <2>5. ASSUME NEW t \in Titles, bookCopy'[t] # NoCopy
        PROVE  \/ bookCopy'[t].stock = shelf[t] \/ bookCopy'[t].raced
               \/ \E q \in BkRequests : bk'[q].book = t /\ bk'[q].pc \in {"publish", "clear"}
    <3>1. CASE t = bk[r].book
      BY <2>1, <2>4, <3>1
    <3>2. CASE t # bk[r].book
      <4>1. bookCopy'[t] = bookCopy[t]
        BY <1>1, <2>1, <3>2
      <4> QED BY <2>4, <2>5, <4>1 DEF BooksInv, StaleBookOnlyByRace
    <3> QED BY <3>1, <3>2
  <2> QED BY <1>1, <2>3, <2>5 DEF BooksInv, StaleBookOnlyByRace
<1>6. CASE ClearCopies(r)
  <2>1. bookCopy' = Cleared /\ bk' = [bk EXCEPT ![r] = DoneRequest]
    BY <1>6, DoneType DEF ClearCopies
  <2> QED BY <1>1, <2>1, ClearedSound, BookStep, DoneType DEF BooksInv
<1> QED BY <1>2, <1>3, <1>4, <1>5, <1>6, <1>a

LEMMA ChangesKeepBooksInv ==
    ASSUME BooksInv, NEW r \in BkRequests, NEW b \in Titles, NEW n \in Amounts,
           AddBook(r, b, n) \/ UpdateBook(r, b, n) \/ DeductStock(r, b, n)
    PROVE  BooksInv'
<1>1. /\ shelf \in [Titles -> Int] /\ bk \in [BkRequests -> BookRequest] /\ DOMAIN bookCopy = Titles
      /\ bk[r].pc = "new" /\ n \in Int
  BY ServicesAssumption DEF BooksInv, BooksTypeOK, AddBook, UpdateBook, DeductStock
<1>2. CASE shelf' = shelf /\ bookCopy' = bookCopy /\ bk' = [bk EXCEPT ![r] = DoneRequest]
  BY <1>1, <1>2, BookStep, DoneType DEF BooksInv
<1>3. ASSUME NEW m \in Int, shelf' = [shelf EXCEPT ![b] = m], bookCopy' = Cleared, bk' = [Outdate(b) EXCEPT ![r] = DoneRequest]
      PROVE  BooksInv'
  BY <1>3, ClearedSound, StockStep, DoneType DEF BooksInv
<1>4. CASE AddBook(r, b, n)
  BY <1>1, <1>3, <1>4, DoneType DEF AddBook
<1>5. CASE DeductStock(r, b, n)
  <2>1. shelf[b] - n \in Int
    BY <1>1
  <2> QED BY <1>1, <1>2, <1>3, <1>5, <2>1, DoneType DEF DeductStock
<1>6. CASE UpdateBook(r, b, n)
  <2> DEFINE new == [pc |-> "publish", book |-> b, stock |-> n, raced |-> FALSE]
  <2>1. CASE shelf[b] = Gone
    BY <1>2, <1>6, <2>1, DoneType DEF UpdateBook
  <2>2. CASE shelf[b] # Gone
    <3>1. shelf' = [shelf EXCEPT ![b] = n] /\ bk' = [Outdate(b) EXCEPT ![r] = new] /\ bookCopy' = bookCopy
      BY <1>6, <2>2 DEF UpdateBook
    <3>2. new \in BookRequest /\ new.pc = "publish" /\ new.book = b /\ new.stock = n
      BY <1>1 DEF BookRequest
    <3> HIDE DEF new
    <3> QED BY <1>1, <3>1, <3>2, StockStep DEF BooksInv
  <2> QED BY <2>1, <2>2
<1> QED BY <1>4, <1>5, <1>6

LEMMA DeleteKeepsBooksInv ==
    ASSUME BooksInv, NEW r \in BkRequests, NEW b \in Titles, DeleteBook(r, b)
    PROVE  BooksInv'
<1> DEFINE new == [Free EXCEPT !.pc = "clear", !.book = b]
<1>1. /\ shelf \in [Titles -> Int] /\ bk \in [BkRequests -> BookRequest] /\ DOMAIN bookCopy = Titles
      /\ bk[r].pc = "new" /\ bookCopy' = bookCopy
  BY DEF BooksInv, BooksTypeOK, DeleteBook
<1>2. CASE shelf[b] = Gone
  <2>1. shelf' = shelf /\ bk' = [bk EXCEPT ![r] = DoneRequest]
    BY <1>1, <1>2, DoneType DEF DeleteBook
  <2> QED BY <1>1, <2>1, BookStep, DoneType DEF BooksInv
<1>3. CASE shelf[b] # Gone
  <2>1. shelf' = [shelf EXCEPT ![b] = Gone] /\ bk' = [Outdate(b) EXCEPT ![r] = new] /\ Gone \in Int
    BY <1>3 DEF DeleteBook, Gone
  <2>2. new \in BookRequest /\ new.pc = "clear" /\ new.book = b
    BY FreeType DEF BookRequest
  <2> HIDE DEF new
  <2> QED BY <1>1, <2>1, <2>2, StockStep DEF BooksInv
<1> QED BY <1>2, <1>3

LEMMA BooksInvStep == BooksInv /\ [BooksNext]_bookVars => BooksInv'
<1> SUFFICES ASSUME BooksInv, [BooksNext]_bookVars PROVE BooksInv'
  OBVIOUS
<1>1. ASSUME NEW r \in BkRequests,
             \/ ReadShelf(r) \/ Fill(r) \/ ListCopy(r) \/ ReadList(r) \/ FillList(r)
             \/ Publish(r) \/ ClearCopies(r) \/ \E b \in Titles : GetCopy(r, b)
      PROVE  BooksInv'
  BY <1>1, ReadsKeepBooksInv
<1>2. ASSUME NEW r \in BkRequests, NEW b \in Titles, NEW n \in Amounts,
             AddBook(r, b, n) \/ UpdateBook(r, b, n) \/ DeductStock(r, b, n)
      PROVE  BooksInv'
  BY <1>2, ChangesKeepBooksInv
<1>3. ASSUME NEW r \in BkRequests, NEW b \in Titles, DeleteBook(r, b) PROVE BooksInv'
  BY <1>3, DeleteKeepsBooksInv
<1>4. CASE ExpireCopies
  <2>1. UNCHANGED <<shelf, bk>> /\ DOMAIN bookCopy = Titles
    BY <1>4 DEF ExpireCopies, BooksInv, BooksTypeOK
  <2>2. DOMAIN bookCopy' = Titles /\ \A t \in Titles : bookCopy'[t] \in {bookCopy[t], NoCopy}
    BY <1>4, <2>1 DEF ExpireCopies
  <2> QED BY <2>1, <2>2 DEF BooksInv, BooksTypeOK, HeldInv, StaleBookOnlyByRace
<1>5. CASE UNCHANGED bookVars
  BY <1>5 DEF bookVars, BooksInv, BooksTypeOK, HeldInv, StaleBookOnlyByRace
<1> QED BY <1>1, <1>2, <1>3, <1>4, <1>5 DEF BooksNext

LEMMA OrdersInvInit == ServicesInit => OrdersInv
<1> SUFFICES ASSUME ServicesInit PROVE OrdersInv
  OBVIOUS
<1>1. /\ notices = <<>> /\ Len(notices) = 0 /\ orderDb = [r \in OrRequests |-> "none"]
      /\ od = [r \in OrRequests |-> [pc |-> "new", order |-> r]]
  BY DEF ServicesInit
<1>2. OrdersTypeOK
  BY <1>1 DEF OrdersTypeOK, OrderRequest
<1>3. \A i \in 1..Len(notices) : FALSE
  BY <1>1
<1>4. OrderNoticesSound /\ \A kind, o : ~Told(kind, o)
  BY <1>3 DEF OrderNoticesSound, Told
<1>5. TellInv
  BY <1>1, <1>4 DEF TellInv
<1> QED BY <1>2, <1>4, <1>5 DEF OrdersInv

\* A notice is pushed, or its push fails.
LEMMA Announced ==
    ASSUME OrdersInv, NEW n \in OrderNotice, notices' \in {notices, Append(notices, n)},
           ~Told(n[1], n[2]), orderDb' = orderDb, orderDb[n[2]] # "none",
           n[1] = "order.cancelled" => orderDb[n[2]] = "Cancelled"
    PROVE  /\ notices' \in Seq(OrderNotice) /\ OrderNoticesSound'
           /\ \A kind, o : Told(kind, o)' => Told(kind, o) \/ (kind = n[1] /\ o = n[2])
<1>1. CASE notices' = notices
  BY <1>1 DEF OrdersInv, OrdersTypeOK, OrderNoticesSound, Told
<1>2. CASE notices' = Append(notices, n)
  <2>1. notices \in Seq(OrderNotice) /\ n = <<n[1], n[2]>>
    BY DEF OrdersInv, OrdersTypeOK, OrderNotice
  <2>2. /\ notices' \in Seq(OrderNotice) /\ Len(notices') = Len(notices) + 1
        /\ notices'[Len(notices')] = n /\ \A i \in 1..Len(notices) : notices'[i] = notices[i]
    BY <1>2, <2>1
  <2>3. \A i \in 1..Len(notices') : i \in 1..Len(notices) \/ i = Len(notices')
    BY <2>1, <2>2
  <2>4. \A i \in 1..Len(notices) : notices[i] # n
    BY <2>1 DEF Told
  <2>5. OrderNoticesSound'
    BY <2>2, <2>3, <2>4 DEF OrdersInv, OrderNoticesSound
  <2>6. ASSUME NEW kind, NEW o, Told(kind, o)' PROVE Told(kind, o) \/ (kind = n[1] /\ o = n[2])
    <3>1. PICK i \in 1..Len(notices') : notices'[i] = <<kind, o>>
      BY <2>6 DEF Told
    <3> QED BY <2>1, <2>2, <2>3, <3>1 DEF Told
  <2> QED BY <2>2, <2>5, <2>6
<1> QED BY <1>1, <1>2

LEMMA OrdersInvStep == OrdersInv /\ [OrdersNext]_orderVars => OrdersInv'
<1> SUFFICES ASSUME OrdersInv, [OrdersNext]_orderVars PROVE OrdersInv'
  OBVIOUS
<1>0. /\ orderDb \in [OrRequests -> {"none", "Confirmed", "Cancelled"}] /\ od \in [OrRequests -> OrderRequest]
      /\ notices \in Seq(OrderNotice)
  BY DEF OrdersInv, OrdersTypeOK
<1>a. ASSUME NEW r \in OrRequests, NEW l \in {"created", "done"}, OdGo(r, l)
      PROVE  /\ od' \in [OrRequests -> OrderRequest] /\ od'[r].pc = l
             /\ \A q \in OrRequests : q # r => od'[q] = od[q]
  <2>1. od[r] \in OrderRequest /\ od' = [od EXCEPT ![r] = [od[r] EXCEPT !.pc = l]]
    BY <1>0, <1>a DEF OdGo
  <2>2. [od[r] EXCEPT !.pc = l] \in OrderRequest /\ [od[r] EXCEPT !.pc = l].pc = l
    BY <2>1 DEF OrderRequest
  <2> QED BY <1>0, <2>1, <2>2
<1>1. ASSUME NEW r \in OrRequests, AnnounceCreated(r) PROVE OrdersInv'
  <2> DEFINE n == <<"order.created", r>>
  <2>1. od[r].pc = "created" /\ orderDb' = orderDb /\ notices' \in {notices, Append(notices, n)} /\ OdGo(r, "done")
    BY <1>1 DEF AnnounceCreated
  <2>2. n \in OrderNotice /\ n[1] = "order.created" /\ n[2] = r /\ orderDb[r] # "none" /\ ~Told("order.created", r)
    BY <2>1 DEF OrdersInv, TellInv, OrderNotice
  <2> HIDE DEF n
  <2>3. /\ notices' \in Seq(OrderNotice) /\ OrderNoticesSound'
        /\ \A kind, o : Told(kind, o)' => Told(kind, o) \/ (kind = "order.created" /\ o = r)
    BY <2>1, <2>2, Announced
  <2>4. /\ od' \in [OrRequests -> OrderRequest] /\ od'[r].pc = "done"
        /\ \A q \in OrRequests : q # r => od'[q] = od[q]
    BY <1>a, <2>1
  <2>5. TellInv'
    BY <2>1, <2>3, <2>4 DEF OrdersInv, TellInv
  <2> QED BY <1>0, <2>1, <2>3, <2>4, <2>5 DEF OrdersInv, OrdersTypeOK
<1>2. ASSUME NEW r \in OrRequests, AnnounceCancelled(r) PROVE OrdersInv'
  <2> DEFINE n == <<"order.cancelled", od[r].order>>
  <2>1. od[r].pc = "notify" /\ orderDb' = orderDb /\ notices' \in {notices, Append(notices, n)} /\ OdGo(r, "done")
    BY <1>2 DEF AnnounceCancelled
  <2>2. od[r].order \in OrRequests
    BY <1>0 DEF OrderRequest
  <2>3. /\ n \in OrderNotice /\ n[1] = "order.cancelled" /\ n[2] = od[r].order
        /\ orderDb[od[r].order] = "Cancelled" /\ ~Told("order.cancelled", od[r].order)
    BY <2>1, <2>2 DEF OrdersInv, TellInv, OrderNotice
  <2> HIDE DEF n
  <2>4. /\ notices' \in Seq(OrderNotice) /\ OrderNoticesSound'
        /\ \A kind, o : Told(kind, o)' => Told(kind, o) \/ (kind = "order.cancelled" /\ o = od[r].order)
    BY <2>1, <2>3, Announced
  <2>5. /\ od' \in [OrRequests -> OrderRequest] /\ od'[r].pc = "done"
        /\ \A q \in OrRequests : q # r => od'[q] = od[q]
    BY <1>a, <2>1
  <2>6. \A q \in OrRequests : od'[q].pc # "notify"
    BY <2>1, <2>5 DEF OrdersInv, TellInv
  <2>7. TellInv'
    BY <2>1, <2>4, <2>5, <2>6 DEF OrdersInv, TellInv
  <2> QED BY <1>0, <2>1, <2>4, <2>5, <2>7 DEF OrdersInv, OrdersTypeOK
<1>3. ASSUME NEW r \in OrRequests, OdGo(r, "done"), od[r].pc = "new", UNCHANGED <<orderDb, notices>>
      PROVE  OrdersInv'
  <2>1. /\ od' \in [OrRequests -> OrderRequest] /\ od'[r].pc = "done"
        /\ \A q \in OrRequests : q # r => od'[q] = od[q]
    BY <1>a, <1>3
  <2>2. TellInv'
    BY <1>3, <2>1 DEF OrdersInv, TellInv, Told
  <2> QED BY <1>0, <1>3, <2>1, <2>2 DEF OrdersInv, OrdersTypeOK, OrderNoticesSound
<1>4. ASSUME NEW r \in OrRequests, NEW n \in Amounts, CreateOrder(r, n) PROVE OrdersInv'
  <2>1. od[r].pc = "new" /\ notices' = notices
    BY <1>4 DEF CreateOrder
  <2>2. CASE orderDb' = [orderDb EXCEPT ![r] = "Confirmed"] /\ OdGo(r, "created")
    <3>1. /\ od' \in [OrRequests -> OrderRequest] /\ od'[r].pc = "created"
          /\ \A q \in OrRequests : q # r => od'[q] = od[q]
      BY <1>a, <2>2
    <3>2. orderDb[r] = "none" /\ \A q \in OrRequests : orderDb'[q] = IF q = r THEN "Confirmed" ELSE orderDb[q]
      BY <1>0, <2>1, <2>2 DEF OrdersInv, TellInv
    <3>3. orderDb' \in [OrRequests -> {"none", "Confirmed", "Cancelled"}]
      BY <1>0, <2>2
    <3>4. \A q \in OrRequests : od[q].order \in OrRequests
      BY <1>0 DEF OrderRequest
    <3>5. \A i \in 1..Len(notices) : notices[i][2] \in OrRequests
      BY <1>0 DEF OrderNotice
    <3>6. OrderNoticesSound'
      BY <2>1, <3>2, <3>5 DEF OrdersInv, OrderNoticesSound
    <3>7. TellInv'
      BY <2>1, <3>1, <3>2, <3>4 DEF OrdersInv, TellInv, Told
    <3> QED BY <1>0, <2>1, <3>1, <3>3, <3>6, <3>7 DEF OrdersInv, OrdersTypeOK
  <2> QED BY <1>3, <1>4, <2>1, <2>2 DEF CreateOrder
<1>5. ASSUME NEW r \in OrRequests, NEW o \in OrRequests, CancelBooking(r, o) PROVE OrdersInv'
  <2>1. od[r].pc = "new" /\ notices' = notices /\ \A q \in OrRequests : od[q].pc # "notify"
    BY <1>5 DEF CancelBooking, Writing
  <2>2. CASE Cancellable(o)
    <3> DEFINE new == [pc |-> "notify", order |-> o]
    <3>1. orderDb' = [orderDb EXCEPT ![o] = "Cancelled"] /\ od' = [od EXCEPT ![r] = new] /\ orderDb[o] \notin {"none", "Cancelled"}
      BY <1>5, <2>2 DEF CancelBooking, Cancellable
    <3>2. new \in OrderRequest /\ new.pc = "notify" /\ new.order = o
      BY DEF OrderRequest
    <3> HIDE DEF new
    <3>3. /\ od' \in [OrRequests -> OrderRequest] /\ od'[r] = new
          /\ \A q \in OrRequests : q # r => od'[q] = od[q]
      BY <1>0, <3>1, <3>2
    <3>4. /\ orderDb' \in [OrRequests -> {"none", "Confirmed", "Cancelled"}]
          /\ \A q \in OrRequests : orderDb'[q] = IF q = o THEN "Cancelled" ELSE orderDb[q]
      BY <1>0, <3>1
    <3>5. \A i \in 1..Len(notices) : notices[i][2] \in OrRequests
      BY <1>0 DEF OrderNotice
    <3>6. OrderNoticesSound'
      BY <2>1, <3>1, <3>4, <3>5 DEF OrdersInv, OrderNoticesSound
    <3>7. ~Told("order.cancelled", o)
      <4> SUFFICES ASSUME NEW i \in 1..Len(notices), notices[i] = <<"order.cancelled", o>> PROVE FALSE
        BY DEF Told
      <4>1. notices[i][1] = "order.cancelled" /\ notices[i][2] = o
        OBVIOUS
      <4> QED BY <3>1, <4>1 DEF OrdersInv, OrderNoticesSound
    <3>8. o # r /\ ~Told("order.created", r)
      BY <2>1, <3>1 DEF OrdersInv, TellInv
    <3>9. \A kind, q : Told(kind, q)' <=> Told(kind, q)
      BY <2>1 DEF Told
    <3>10. TellInv'
      BY <2>1, <3>1, <3>2, <3>3, <3>4, <3>7, <3>8, <3>9 DEF OrdersInv, TellInv
    <3> QED BY <1>0, <2>1, <3>3, <3>4, <3>6, <3>10 DEF OrdersInv, OrdersTypeOK
  <2>3. CASE ~Cancellable(o)
    BY <1>3, <1>5, <2>1, <2>3 DEF CancelBooking
  <2> QED BY <2>2, <2>3
<1>6. CASE UNCHANGED orderVars
  BY <1>6 DEF orderVars, OrdersInv, OrdersTypeOK, TellInv, Told, OrderNoticesSound
<1> QED BY <1>1, <1>2, <1>4, <1>5, <1>6 DEF OrdersNext

(***************************************************************************)
(* Of the bookstore's RPC services: whatever requests meet, the book       *)
(* service serves an old copy only when a reader cached it after the       *)
(* change or the writer has yet to clear the caches, and the order service *)
(* announces each order as created and as cancelled at most once, and only *)
(* what is so.  Any number of titles and requests.                         *)
(***************************************************************************)
THEOREM ServicesSoundTheorem == ServicesSpec => []ServicesSound
<1>1. ServicesInit => BooksInv /\ OrdersInv
  BY BooksInvInit, OrdersInvInit
<1>2. BooksInv /\ OrdersInv /\ [ServicesNext]_servicesVars => BooksInv' /\ OrdersInv'
  <2> SUFFICES ASSUME BooksInv, OrdersInv, [ServicesNext]_servicesVars PROVE BooksInv' /\ OrdersInv'
    OBVIOUS
  <2>1. [BooksNext]_bookVars /\ [OrdersNext]_orderVars
    BY DEF ServicesNext, servicesVars, bookVars, orderVars
  <2> QED BY <2>1, BooksInvStep, OrdersInvStep
<1>3. BooksInv /\ OrdersInv => ServicesSound
  BY DEF BooksInv, OrdersInv, ServicesSound
<1> QED BY <1>1, <1>2, <1>3, PTL DEF ServicesSpec

-----------------------------------------------------------------------------
(* Tenants *)

UserRows == [id : Nat, tenant : Slugs, email : Emails, role : Roles]

TmPc == {"new", "valid", "insert", "created", "email", "role", "find",
         "200", "400", "401", "403", "404", "429", "500"}

TmStates == [pc : TmPc, admin : BOOLEAN, tenant : Slugs \cup {"none"},
             row : [id : Nat, email : Emails \cup {"none"}, role : Roles \cup {"none"}],
             seen : SUBSET UserRows]

TenantTypeOK ==
    /\ users \in SUBSET UserRows /\ IsFiniteSet(users) /\ lastId \in Nat
    /\ tm \in [TmRequests -> TmStates]

\* A request past the layer has a tenant; what it writes is of the columns' types;
\* only the answer of a request has rows.
Proper(x) ==
    /\ x.pc \in {"valid", "insert", "created", "email", "role", "find"} => x.tenant \in Slugs
    /\ x.pc \in {"insert", "email", "role"} => x.row.email \in Emails /\ x.row.role \in Roles
    /\ x.pc # "200" => x.seen = {}

ProperInv == \A r \in TmRequests : Proper(tm[r])

\* Ids are unique, and emails within a tenant.
RowsInv ==
    /\ \A u \in users : u.id > 0 /\ u.id <= lastId
    /\ \A u, v \in users : u.id = v.id => u = v
    /\ \A u, v \in users : u.tenant = v.tenant /\ u.email = v.email => u = v

Inserting(r, t) == tm[r].pc = "insert" /\ tm[r].tenant = t

\* While no two requests have been past the check at once, who is past it finds room.
RoomForUsers ==
    \A t \in Slugs \ crowded :
        /\ Cardinality(OfTenant(t)) <= MaxUsers
        /\ \A r \in TmRequests : Inserting(r, t) =>
              /\ Cardinality(OfTenant(t)) < MaxUsers
              /\ \A q \in TmRequests : Inserting(q, t) => q = r

TenantInv == TenantTypeOK /\ ProperInv /\ RowsInv /\ RoomForUsers

\* What a step of r does to the requests: it moves r alone, to an answer with rows of
\* its own tenant, or past the check of the quota.
MovesOne(r) ==
    /\ \A q \in TmRequests : q # r => tm'[q] = tm[q]
    /\ tm' \in [TmRequests -> TmStates] /\ Proper(tm'[r])
    /\ \A u \in tm'[r].seen : u.tenant = tm[r].tenant
    /\ tm'[r].pc = "insert" =>
          /\ tm[r].pc = "valid" /\ QuotaLeft(tm[r].tenant) /\ tm'[r].tenant = tm[r].tenant
          /\ \A q \in TmRequests : Inserting(q, tm[r].tenant) => tm[r].tenant \in crowded'
    /\ crowded \subseteq crowded'

\* What a step of r does to the rows: nothing, or a statement about its own tenant.
WritesOwn(r) ==
    \/ users' = users /\ lastId' = lastId
    \/ /\ tm[r].pc = "insert" /\ tm'[r].pc # "insert" /\ lastId' = lastId + 1
       /\ \E new \in UserRows :
             /\ users' = users \cup {new} /\ new.id = lastId + 1 /\ new.tenant = tm[r].tenant
             /\ \A u \in users : u.tenant = new.tenant => u.email # new.email
    \/ /\ lastId' = lastId /\ tm'[r].pc # "insert"
       /\ users' \subseteq users /\ \A u \in users \ users' : u.tenant = tm[r].tenant
    \/ /\ lastId' = lastId /\ tm'[r].pc # "insert"
       /\ \E u \in users, v \in UserRows :
             /\ users' = (users \ {u}) \cup {v} /\ v.id = u.id
             /\ v.tenant = u.tenant /\ u.tenant = tm[r].tenant
             /\ \A w \in users : w.tenant = v.tenant /\ w.email = v.email => w = u

LEMMA AnswerMoves ==
    ASSUME TenantTypeOK, ProperInv, NEW r \in TmRequests, crowded' = crowded,
           tm[r].pc # "200", NEW c \in TmPc \ {"valid", "insert", "created", "email", "role",
           "find"},
           Answer(r, c)
    PROVE  MovesOne(r) /\ tm'[r].pc = c
  <1>1. tm \in [TmRequests -> TmStates] /\ tm[r] \in TmStates /\ Proper(tm[r])
    BY DEF TenantTypeOK, ProperInv
  <1>2. tm' = [tm EXCEPT ![r] = [tm[r] EXCEPT !.pc = c]]
    BY <1>1 DEF Answer
  <1> DEFINE x == [tm[r] EXCEPT !.pc = c]
  <1>3. x \in TmStates /\ x.pc = c /\ x.seen = {}
    BY <1>1 DEF TmStates, Proper
  <1> HIDE DEF x
  <1>4. tm'[r] = x /\ tm' \in [TmRequests -> TmStates] /\ \A q \in TmRequests : q # r => tm'[q] = tm[q]
    BY <1>1, <1>2, <1>3 DEF x
  <1>5. Proper(x)
    BY <1>3 DEF Proper
  <1> QED
    BY <1>3, <1>4, <1>5 DEF MovesOne

LEMMA AnswerWithMoves ==
    ASSUME TenantTypeOK, ProperInv, NEW r \in TmRequests, crowded' = crowded,
           NEW rows \in SUBSET users, \A u \in rows : u.tenant = tm[r].tenant,
           AnswerWith(r, rows)
    PROVE  MovesOne(r)
  <1>1. tm \in [TmRequests -> TmStates] /\ tm[r] \in TmStates /\ rows \in SUBSET UserRows
    BY DEF TenantTypeOK
  <1> DEFINE x == [tm[r] EXCEPT !.pc = "200", !.seen = rows]
  <1>2. tm' = [tm EXCEPT ![r] = x]
    BY <1>1 DEF AnswerWith
  <1>3. x \in TmStates /\ x.pc = "200" /\ x.seen = rows
    BY <1>1 DEF TmStates, TmPc
  <1> HIDE DEF x
  <1>4. tm'[r] = x /\ tm' \in [TmRequests -> TmStates] /\ \A q \in TmRequests : q # r => tm'[q] = tm[q]
    BY <1>1, <1>2, <1>3
  <1>5. Proper(x)
    BY <1>3 DEF Proper
  <1> QED
    BY <1>3, <1>4, <1>5 DEF MovesOne

\* A request that goes on to a further statement has a tenant and proper columns.
LEMMA GoesOn ==
    ASSUME TenantTypeOK, NEW r \in TmRequests, NEW x \in TmStates,
           tm' = [tm EXCEPT ![r] = x], crowded \subseteq crowded', Proper(x), x.seen = {},
           x.pc # "insert"
    PROVE  MovesOne(r) /\ tm'[r].pc # "insert"
  <1>1. tm \in [TmRequests -> TmStates]
    BY DEF TenantTypeOK
  <1>4. tm'[r] = x /\ tm' \in [TmRequests -> TmStates] /\ \A q \in TmRequests : q # r => tm'[q] = tm[q]
    BY <1>1
  <1> QED
    BY <1>4 DEF MovesOne

LEMMA ValidateStep ==
    ASSUME TenantInv, NEW r \in TmRequests, NEW t \in Slugs, NEW admin \in BOOLEAN,
           Validate(r, t, admin) \/ NoHeader(r, admin)
    PROVE  MovesOne(r) /\ WritesOwn(r)
  <1>1. tm[r] \in TmStates /\ Proper(tm[r]) /\ TenantTypeOK /\ tm \in [TmRequests -> TmStates]
    BY DEF TenantInv, TenantTypeOK, ProperInv
  <1>2. users' = users /\ lastId' = lastId /\ crowded' = crowded /\ tm[r].pc = "new"
    BY DEF Validate, NoHeader
  <1>3. CASE \E c \in {"403", "429", "valid"} :
                tm' = [tm EXCEPT ![r].pc = c, ![r].admin = admin, ![r].tenant = t]
    <2>1. PICK c \in {"403", "429", "valid"} :
                tm' = [tm EXCEPT ![r].pc = c, ![r].admin = admin, ![r].tenant = t]
      BY <1>3
    <2> DEFINE x == [tm[r] EXCEPT !.pc = c, !.admin = admin, !.tenant = t]
    <2>2. tm' = [tm EXCEPT ![r] = x]
      BY <1>1, <2>1
    <2>3. x \in TmStates /\ x.pc = c /\ x.tenant = t /\ x.seen = {}
      BY <1>1, <1>2 DEF TmStates, TmPc, Proper
    <2> HIDE DEF x
    <2>4. Proper(x) /\ x.pc # "insert"
      BY <2>3 DEF Proper
    <2> QED
      BY <1>1, <1>2, <2>2, <2>3, <2>4, GoesOn DEF WritesOwn
  <1>4. CASE NoHeader(r, admin)
    <2> DEFINE x == [tm[r] EXCEPT !.pc = "400", !.admin = admin]
    <2>2. tm' = [tm EXCEPT ![r] = x]
      BY <1>1, <1>4 DEF NoHeader
    <2>3. x \in TmStates /\ x.pc = "400" /\ x.seen = {}
      BY <1>1, <1>2 DEF TmStates, TmPc, Proper
    <2> HIDE DEF x
    <2>4. Proper(x) /\ x.pc # "insert"
      BY <2>3 DEF Proper
    <2> QED
      BY <1>1, <1>2, <2>2, <2>3, <2>4, GoesOn DEF WritesOwn
  <1> QED
    BY <1>3, <1>4 DEF Validate

LEMMA AdminStep ==
    ASSUME TenantInv, NEW r \in TmRequests, NEW t \in Slugs, NEW s \in Statuses,
           NotAdmin(r) \/ CreateTenant(r, t) \/ ReadTenants(r, t) \/ DeleteTenant(r,
           t) \/ SetStatus(r, t, s)
    PROVE  MovesOne(r) /\ WritesOwn(r)
  <1>1. users' = users /\ lastId' = lastId /\ crowded' = crowded /\ tm[r].pc = "valid"
    BY DEF NotAdmin, CreateTenant, ReadTenants, DeleteTenant, SetStatus
  <1>2. PICK c \in {"200", "401", "404", "500"} : Answer(r, c)
    BY DEF NotAdmin, CreateTenant, ReadTenants, DeleteTenant, SetStatus
  <1> QED
    BY <1>1, <1>2, AnswerMoves DEF TenantInv, WritesOwn, TmPc

LEMMA CheckStep ==
    ASSUME TenantInv, NEW r \in TmRequests, NEW e \in Emails, NEW role \in Roles, CheckQuota(r, e, role)
    PROVE  MovesOne(r) /\ WritesOwn(r)
  <1>1. tm[r] \in TmStates /\ Proper(tm[r]) /\ TenantTypeOK /\ ProperInv /\ tm \in [TmRequests -> TmStates]
    BY DEF TenantInv, TenantTypeOK, ProperInv
  <1>2. users' = users /\ lastId' = lastId /\ tm[r].pc = "valid" /\ tm[r].tenant \in Slugs /\ tm[r].seen = {}
    BY <1>1 DEF CheckQuota, Proper
  <1>3. CASE QuotaLeft(tm[r].tenant)
    <2> DEFINE x == [tm[r] EXCEPT !.pc = "insert", !.row = [id |-> 0, email |-> e, role |-> role]]
    <2>1. tm' = [tm EXCEPT ![r] = x]
      BY <1>1, <1>3 DEF CheckQuota
    <2>2. /\ x \in TmStates /\ x.pc = "insert" /\ x.tenant = tm[r].tenant /\ x.seen = {}
          /\ x.row.email = e /\ x.row.role = role
      BY <1>1, <1>2 DEF TmStates, TmPc
    <2> HIDE DEF x
    <2>3. tm'[r] = x /\ tm' \in [TmRequests -> TmStates] /\ \A q \in TmRequests : q # r => tm'[q] = tm[q]
      BY <1>1, <2>1, <2>2
    <2>4. Proper(x)
      BY <1>2, <2>2 DEF Proper
    <2>5. /\ crowded \subseteq crowded'
          /\ \A q \in TmRequests : Inserting(q, tm[r].tenant) => tm[r].tenant \in crowded'
      BY <1>3 DEF CheckQuota, Inserting
    <2> QED
      BY <1>2, <1>3, <2>2, <2>3, <2>4, <2>5 DEF MovesOne, WritesOwn
  <1>4. CASE ~QuotaLeft(tm[r].tenant)
    <2>1. Answer(r, "429") /\ crowded' = crowded
      BY <1>4 DEF CheckQuota
    <2> QED
      BY <1>1, <1>2, <2>1, AnswerMoves DEF WritesOwn, TmPc
  <1> QED
    BY <1>3, <1>4

LEMMA InsertStep ==
    ASSUME TenantInv, NEW r \in TmRequests, InsertUser(r)
    PROVE  MovesOne(r) /\ WritesOwn(r)
  <1>1. tm[r] \in TmStates /\ Proper(tm[r]) /\ TenantTypeOK /\ ProperInv /\ tm \in [TmRequests -> TmStates]
    BY DEF TenantInv, TenantTypeOK, ProperInv
  <1>2. /\ tm[r].pc = "insert" /\ tm[r].tenant \in Slugs /\ tm[r].seen = {} /\ crowded' = crowded
        /\ tm[r].row.email \in Emails /\ tm[r].row.role \in Roles
    BY <1>1 DEF InsertUser, Proper
  <1>3. CASE Taken(tm[r].tenant, tm[r].row.email, 0)
    <2>1. Answer(r, "500") /\ users' = users /\ lastId' = lastId
      BY <1>3 DEF InsertUser
    <2> QED
      BY <1>1, <1>2, <2>1, AnswerMoves DEF WritesOwn, TmPc
  <1>4. CASE ~Taken(tm[r].tenant, tm[r].row.email, 0)
    <2>0. lastId \in Nat
      BY <1>1 DEF TenantTypeOK
    <2> DEFINE x == [tm[r] EXCEPT !.pc = "created", !.row.id = lastId + 1]
               new == [id |-> lastId + 1, tenant |-> tm[r].tenant, email |-> tm[r].row.email, role |-> tm[r].row.role]
    <2>1. tm' = [tm EXCEPT ![r] = x]
      BY <1>1, <1>4 DEF InsertUser
    <2>2. x \in TmStates /\ x.pc = "created" /\ x.tenant = tm[r].tenant /\ x.seen = {}
      <3> DEFINE row == [tm[r].row EXCEPT !.id = lastId + 1]
      <3>1. row \in [id : Nat, email : Emails \cup {"none"}, role : Roles \cup {"none"}]
        BY <1>1, <2>0 DEF TmStates
      <3>2. x = [tm[r] EXCEPT !.pc = "created", !.row = row]
        BY <1>1 DEF TmStates
      <3> HIDE DEF x, row
      <3> QED
        BY <1>1, <1>2, <3>1, <3>2 DEF TmStates, TmPc
    <2>3. users' = users \cup {new} /\ lastId' = lastId + 1
      BY <1>4 DEF InsertUser
    <2>4. /\ new \in UserRows /\ new.id = lastId + 1 /\ new.tenant = tm[r].tenant
          /\ new.email = tm[r].row.email
      BY <1>2, <2>0 DEF UserRows
    <2>5. \A u \in users : u.tenant = tm[r].tenant => u.email # tm[r].row.email
      <3>1. \A u \in users : u.id # 0
        BY DEF TenantInv, RowsInv, TenantTypeOK, UserRows
      <3> QED
        BY <1>4, <3>1 DEF Taken, OfTenant
    <2> HIDE DEF x, new
    <2>6. Proper(x) /\ x.pc # "insert"
      BY <1>2, <2>2 DEF Proper
    <2>7. MovesOne(r) /\ tm'[r].pc # "insert"
      BY <1>1, <1>2, <2>1, <2>2, <2>6, GoesOn
    <2> QED
      BY <1>2, <2>3, <2>4, <2>5, <2>7 DEF WritesOwn
  <1> QED
    BY <1>3, <1>4

LEMMA ReadStep ==
    ASSUME TenantInv, NEW r \in TmRequests, NEW id \in Nat, ReadUsers(r, id) \/ FindUpdated(r)
    PROVE  MovesOne(r) /\ WritesOwn(r)
  <1>1. TenantTypeOK /\ ProperInv
    BY DEF TenantInv
  <1>2. users' = users /\ lastId' = lastId /\ crowded' = crowded /\ tm[r].pc # "200"
    BY DEF ReadUsers, FindUpdated
  <1>3. CASE \E c \in {"404", "500"} : Answer(r, c)
    BY <1>1, <1>2, <1>3, AnswerMoves DEF WritesOwn, TmPc
  <1>4. CASE \E rows \in SUBSET OfTenant(tm[r].tenant) : AnswerWith(r, rows)
    BY <1>1, <1>2, <1>4, AnswerWithMoves DEF WritesOwn, OfTenant
  <1> QED
    BY <1>3, <1>4 DEF ReadUsers, FindUpdated, Find

LEMMA DeleteStep ==
    ASSUME TenantInv, NEW r \in TmRequests, NEW id \in Nat, DeleteUser(r, id)
    PROVE  MovesOne(r) /\ WritesOwn(r)
  <1>1. TenantTypeOK /\ ProperInv
    BY DEF TenantInv
  <1>2. users' = users \ Mine(r, id) /\ lastId' = lastId /\ crowded' = crowded /\ tm[r].pc # "200"
    BY DEF DeleteUser
  <1>3. PICK c \in {"200", "404"} : Answer(r, c)
    BY DEF DeleteUser
  <1>4. MovesOne(r) /\ tm'[r].pc = c
    BY <1>1, <1>2, <1>3, AnswerMoves DEF TmPc
  <1> QED
    BY <1>2, <1>4 DEF WritesOwn, Mine, Find, OfTenant

\* An UPDATE changes the row with the id, if it is the tenant's.
LEMMA ChangeOne ==
    ASSUME TenantInv, NEW r \in TmRequests, NEW column \in {"email", "role"}, Change(r, column),
           tm[r].row.email \in Emails, tm[r].row.role \in Roles,
           column = "email" /\ Mine(r, tm[r].row.id) # {} =>
               ~Taken(tm[r].tenant, tm[r].row.email, tm[r].row.id)
    PROVE  \/ users' = users
           \/ \E u \in users, v \in UserRows :
                 /\ users' = (users \ {u}) \cup {v} /\ v.id = u.id
                 /\ v.tenant = u.tenant /\ u.tenant = tm[r].tenant
                 /\ \A w \in users : w.tenant = v.tenant /\ w.email = v.email => w = u
  <1> DEFINE mine == Mine(r, tm[r].row.id)
             Set(u) == [u EXCEPT ![column] = tm[r].row[column]]
  <1>1. users' = (users \ mine) \cup {Set(u) : u \in mine}
    BY DEF Change
  <1>2. CASE mine = {}
    BY <1>1, <1>2
  <1>3. CASE mine # {}
    <2>1. PICK u \in users : u \in mine
      BY <1>3 DEF Mine, Find, OfTenant
    <2>2. u.tenant = tm[r].tenant /\ u.id = tm[r].row.id
      BY <2>1 DEF Mine, Find, OfTenant
    <2>3. mine = {u}
      BY <2>1, <2>2 DEF Mine, Find, OfTenant, TenantInv, RowsInv
    <2>4. u \in UserRows
      BY DEF TenantInv, TenantTypeOK
    <2>5. Set(u) \in UserRows /\ Set(u).id = u.id /\ Set(u).tenant = u.tenant
      <3>1. CASE column = "email"
        BY <2>4, <3>1 DEF UserRows
      <3>2. CASE column = "role"
        BY <2>4, <3>2 DEF UserRows
      <3> QED  BY <3>1, <3>2
    <2>6. \A w \in users : w.tenant = u.tenant /\ w.email = Set(u).email => w = u
      <3>1. CASE column = "email"
        <4>1. Set(u).email = tm[r].row.email
          BY <2>4, <3>1 DEF UserRows
        <4>2. \A w \in users : w.tenant = u.tenant /\ w.email = tm[r].row.email => w.id = u.id
          BY <1>3, <2>2, <3>1 DEF Taken, OfTenant
        <4> HIDE DEF Set
        <4> QED
          BY <4>1, <4>2 DEF TenantInv, RowsInv
      <3>2. CASE column = "role"
        <4>1. Set(u).email = u.email
          BY <2>4, <3>2 DEF UserRows
        <4> HIDE DEF Set
        <4> QED
          BY <4>1 DEF TenantInv, RowsInv
      <3> QED  BY <3>1, <3>2
    <2> HIDE DEF Set, mine
    <2>7. users' = (users \ {u}) \cup {Set(u)}
      BY <1>1, <2>3
    <2> QED
      BY <2>2, <2>5, <2>6, <2>7
  <1> QED
    BY <1>2, <1>3

LEMMA UpdateStep ==
    ASSUME TenantInv, NEW r \in TmRequests, UpdateEmail(r) \/ UpdateRole(r)
    PROVE  MovesOne(r) /\ WritesOwn(r)
  <1>1. tm[r] \in TmStates /\ Proper(tm[r]) /\ TenantTypeOK /\ ProperInv /\ tm \in [TmRequests -> TmStates]
    BY DEF TenantInv, TenantTypeOK, ProperInv
  <1>2. /\ tm[r].pc \in {"email", "role"} /\ tm[r].tenant \in Slugs /\ tm[r].seen = {}
        /\ crowded' = crowded /\ lastId' = lastId
        /\ tm[r].row.email \in Emails /\ tm[r].row.role \in Roles
    BY <1>1 DEF UpdateEmail, UpdateRole, Proper
  <1>3. CASE Answer(r, "404") /\ users' = users
    BY <1>1, <1>2, <1>3, AnswerMoves DEF WritesOwn, TmPc
  <1>4. ASSUME NEW c \in {"role", "find"}, Answer(r, c) PROVE MovesOne(r) /\ tm'[r].pc # "insert"
    <2> DEFINE x == [tm[r] EXCEPT !.pc = c]
    <2>1. tm' = [tm EXCEPT ![r] = x]
      BY <1>1, <1>4 DEF Answer
    <2>2. x \in TmStates /\ x.pc = c /\ x.tenant = tm[r].tenant /\ x.seen = {} /\ x.row = tm[r].row
      BY <1>1, <1>2 DEF TmStates, TmPc
    <2> HIDE DEF x
    <2>3. Proper(x) /\ x.pc # "insert"
      BY <1>2, <2>2 DEF Proper
    <2> QED
      BY <1>1, <1>2, <2>1, <2>2, <2>3, GoesOn
  <1>5. CASE UpdateEmail(r) /\ ~(Answer(r, "404") /\ users' = users)
    <2>1. /\ Change(r, "email") /\ Answer(r, "role")
          /\ Mine(r, tm[r].row.id) # {} => ~Taken(tm[r].tenant, tm[r].row.email, tm[r].row.id)
      BY <1>5 DEF UpdateEmail
    <2>2. MovesOne(r) /\ tm'[r].pc # "insert"
      BY <1>4, <2>1
    <2> QED
      BY <1>2, <2>1, <2>2, ChangeOne DEF WritesOwn
  <1>6. CASE UpdateRole(r)
    <2>1. Change(r, "role") /\ Answer(r, "find")
      BY <1>6 DEF UpdateRole
    <2>2. MovesOne(r) /\ tm'[r].pc # "insert"
      BY <1>4, <2>1
    <2> QED
      BY <1>2, <2>1, <2>2, ChangeOne DEF WritesOwn
  <1> QED
    BY <1>3, <1>5, <1>6

LEMMA FindStep ==
    ASSUME TenantInv, NEW r \in TmRequests, NEW e \in Emails, NEW role \in Roles, NEW id \in Nat,
           FindForUpdate(r, id, e, role)
    PROVE  MovesOne(r) /\ WritesOwn(r)
  <1>1. tm[r] \in TmStates /\ Proper(tm[r]) /\ TenantTypeOK /\ ProperInv /\ tm \in [TmRequests -> TmStates]
    BY DEF TenantInv, TenantTypeOK, ProperInv
  <1>2. /\ users' = users /\ lastId' = lastId /\ crowded' = crowded
        /\ tm[r].pc = "valid" /\ tm[r].tenant \in Slugs /\ tm[r].seen = {}
    BY <1>1 DEF FindForUpdate, Proper
  <1>3. CASE Answer(r, "404")
    BY <1>1, <1>2, <1>3, AnswerMoves DEF WritesOwn, TmPc
  <1>4. CASE tm' = [tm EXCEPT ![r].pc = "email", ![r].row = [id |-> id, email |-> e, role |-> role]]
    <2> DEFINE x == [tm[r] EXCEPT !.pc = "email", !.row = [id |-> id, email |-> e, role |-> role]]
    <2>1. tm' = [tm EXCEPT ![r] = x]
      BY <1>1, <1>4
    <2>2. /\ x \in TmStates /\ x.pc = "email" /\ x.tenant = tm[r].tenant /\ x.seen = {}
          /\ x.row.email = e /\ x.row.role = role
      BY <1>1, <1>2 DEF TmStates, TmPc
    <2> HIDE DEF x
    <2>3. Proper(x) /\ x.pc # "insert"
      BY <1>2, <2>2 DEF Proper
    <2> QED
      BY <1>1, <1>2, <2>1, <2>2, <2>3, GoesOn DEF WritesOwn
  <1> QED
    BY <1>3, <1>4 DEF FindForUpdate

\* Every step is one of a request, or leaves requests and users alone.
LEMMA TenantSteps ==
    ASSUME TenantInv, [TenantNext]_tenantVars
    PROVE  \/ UNCHANGED <<users, lastId, tm, crowded>>
           \/ \E r \in TmRequests : MovesOne(r) /\ WritesOwn(r)
  <1>1. 1..lastId \subseteq Nat /\ 1..(lastId + 1) \subseteq Nat /\ \E t \in Slugs : TRUE
    BY TenantAssumption DEF TenantInv, TenantTypeOK
  <1>2. ASSUME NEW r \in TmRequests, NEW admin \in BOOLEAN, NoHeader(r, admin)
        PROVE  MovesOne(r) /\ WritesOwn(r)
    BY <1>1, <1>2, ValidateStep
  <1>3. ASSUME NEW r \in TmRequests, NotAdmin(r) PROVE MovesOne(r) /\ WritesOwn(r)
    <2>1. "active" \in Statuses
      BY DEF Statuses
    <2> QED
      BY <1>1, <1>3, <2>1, AdminStep
  <1>4. ASSUME NEW r \in TmRequests, InsertUser(r) \/ UpdateEmail(r) \/ UpdateRole(r) \/ FindUpdated(r)
        PROVE  MovesOne(r) /\ WritesOwn(r)
    <2>1. 0 \in Nat
      OBVIOUS
    <2> QED
      BY <1>4, <2>1, InsertStep, UpdateStep, ReadStep
  <1>5. ASSUME NEW r \in TmRequests, NEW t \in Slugs, NEW admin \in BOOLEAN, Validate(r, t, admin)
        PROVE  MovesOne(r) /\ WritesOwn(r)
    BY <1>5, ValidateStep
  <1>6. ASSUME NEW r \in TmRequests, NEW t \in Slugs,
               CreateTenant(r, t) \/ ReadTenants(r, t) \/ DeleteTenant(r,
               t) \/ \E s \in Statuses : SetStatus(r, t, s)
        PROVE  MovesOne(r) /\ WritesOwn(r)
    <2>1. "active" \in Statuses
      BY DEF Statuses
    <2> QED
      BY <1>6, <2>1, AdminStep
  <1>7. ASSUME NEW r \in TmRequests, NEW e \in Emails, NEW role \in Roles,
               CheckQuota(r, e, role) \/ \E id \in 1..lastId : FindForUpdate(r, id, e, role)
        PROVE  MovesOne(r) /\ WritesOwn(r)
    BY <1>1, <1>7, CheckStep, FindStep
  <1>8. ASSUME NEW r \in TmRequests, NEW id \in 1..(lastId + 1), ReadUsers(r, id) \/ DeleteUser(r, id)
        PROVE  MovesOne(r) /\ WritesOwn(r)
    BY <1>1, <1>8, ReadStep, DeleteStep
  <1>9. ASSUME NEW t \in Slugs, NewWindow(t) PROVE UNCHANGED <<users, lastId, tm, crowded>>
    BY <1>9 DEF NewWindow
  <1>10. CASE UNCHANGED tenantVars
    BY <1>10 DEF tenantVars
  <1> QED
    BY <1>2, <1>3, <1>4, <1>5, <1>6, <1>7, <1>8, <1>9, <1>10 DEF TenantNext

\* What the four kinds of write leave true of the rows.
LEMMA RowsStep ==
    ASSUME TenantInv, NEW r \in TmRequests, WritesOwn(r)
    PROVE  /\ users' \in SUBSET UserRows /\ IsFiniteSet(users') /\ lastId' \in Nat
           /\ RowsInv'
           /\ \A u \in (users \ users') \cup (users' \ users) : u.tenant = tm[r].tenant
  <1>1. users \in SUBSET UserRows /\ IsFiniteSet(users) /\ lastId \in Nat /\ RowsInv
    BY DEF TenantInv, TenantTypeOK
  <1>2. CASE users' = users /\ lastId' = lastId
    BY <1>1, <1>2 DEF RowsInv
  <1>3. CASE /\ lastId' = lastId + 1
             /\ \E new \in UserRows :
                   /\ users' = users \cup {new} /\ new.id = lastId + 1 /\ new.tenant = tm[r].tenant
                   /\ \A u \in users : u.tenant = new.tenant => u.email # new.email
    <2>1. PICK new \in UserRows :
                   /\ users' = users \cup {new} /\ new.id = lastId + 1 /\ new.tenant = tm[r].tenant
                   /\ \A u \in users : u.tenant = new.tenant => u.email # new.email
      BY <1>3
    <2>2. IsFiniteSet(users')
      BY <1>1, <2>1, FS_AddElement
    <2>3. \A u \in users : u.id \in Nat /\ u.id > 0 /\ u.id <= lastId
      BY <1>1 DEF RowsInv, UserRows
    <2>4. RowsInv'
      BY <1>1, <1>3, <2>1, <2>3 DEF RowsInv
    <2> QED
      BY <1>1, <1>3, <2>1, <2>2, <2>4
  <1>4. CASE /\ lastId' = lastId
             /\ users' \subseteq users /\ \A u \in users \ users' : u.tenant = tm[r].tenant
    <2>1. IsFiniteSet(users')
      BY <1>1, <1>4, FS_Subset
    <2> QED
      BY <1>1, <1>4, <2>1 DEF RowsInv
  <1>5. CASE /\ lastId' = lastId
             /\ \E u \in users, v \in UserRows :
                   /\ users' = (users \ {u}) \cup {v} /\ v.id = u.id
                   /\ v.tenant = u.tenant /\ u.tenant = tm[r].tenant
                   /\ \A w \in users : w.tenant = v.tenant /\ w.email = v.email => w = u
    <2>1. PICK u \in users, v \in UserRows :
                   /\ users' = (users \ {u}) \cup {v} /\ v.id = u.id
                   /\ v.tenant = u.tenant /\ u.tenant = tm[r].tenant
                   /\ \A w \in users : w.tenant = v.tenant /\ w.email = v.email => w = u
      BY <1>5
    <2>2. IsFiniteSet(users')
      BY <1>1, <2>1, FS_AddElement, FS_RemoveElement
    <2>3. RowsInv'
      BY <1>1, <1>5, <2>1 DEF RowsInv
    <2> QED
      BY <1>1, <1>5, <2>1, <2>2, <2>3
  <1> QED
    BY <1>2, <1>3, <1>4, <1>5 DEF WritesOwn

\* A tenant gets one user more by an INSERT of a request that has passed the check,
\* and none by any other statement.
LEMMA CountStep ==
    ASSUME TenantInv, NEW r \in TmRequests, WritesOwn(r), NEW t \in Slugs
    PROVE  LET old == Cardinality(OfTenant(t))  new == Cardinality(OfTenant(t)') IN
           /\ old \in Nat /\ new \in Nat
           /\ \/ new <= old
              \/ Inserting(r, t) /\ tm'[r].pc # "insert" /\ new = old + 1
  <1>1. users \in SUBSET UserRows /\ IsFiniteSet(users) /\ OfTenant(t) \subseteq users
    BY DEF TenantInv, TenantTypeOK, OfTenant
  <1>2. IsFiniteSet(OfTenant(t)) /\ Cardinality(OfTenant(t)) \in Nat
    BY <1>1, FS_Subset, FS_CardinalityType
  <1>3. IsFiniteSet(OfTenant(t)') /\ Cardinality(OfTenant(t)') \in Nat
    <2>1. IsFiniteSet(users') /\ OfTenant(t)' \subseteq users'
      BY RowsStep DEF OfTenant
    <2> QED
      BY <2>1, FS_Subset, FS_CardinalityType
  <1>4. ASSUME OfTenant(t)' \subseteq OfTenant(t)
        PROVE  Cardinality(OfTenant(t)') <= Cardinality(OfTenant(t))
    BY <1>2, <1>4, FS_Subset
  <1>5. CASE users' \subseteq users
    <2>1. OfTenant(t)' \subseteq OfTenant(t)
      BY <1>5 DEF OfTenant
    <2> QED
      BY <1>2, <1>3, <1>4, <2>1
  <1>6. ASSUME tm[r].pc = "insert", tm'[r].pc # "insert",
               NEW n \in UserRows, users' = users \cup {n}, n.tenant = tm[r].tenant
        PROVE  \/ Cardinality(OfTenant(t)') <= Cardinality(OfTenant(t))
               \/ Inserting(r, t) /\ Cardinality(OfTenant(t)') = Cardinality(OfTenant(t)) + 1
    <2>1. CASE n.tenant = t /\ n \notin OfTenant(t)
      <3>1. OfTenant(t)' = OfTenant(t) \cup {n}
        BY <1>6, <2>1 DEF OfTenant
      <3> QED
        BY <1>2, <1>6, <2>1, <3>1, FS_AddElement DEF Inserting
    <2>2. CASE n.tenant # t \/ n \in OfTenant(t)
      <3>1. OfTenant(t)' \subseteq OfTenant(t)
        BY <1>6, <2>2 DEF OfTenant
      <3> QED
        BY <1>4, <3>1
    <2> QED  BY <2>1, <2>2
  <1>7. ASSUME NEW u \in users, NEW v \in UserRows,
               users' = (users \ {u}) \cup {v}, v.tenant = u.tenant
        PROVE  Cardinality(OfTenant(t)') <= Cardinality(OfTenant(t))
    <2>1. CASE u.tenant # t
      <3>1. OfTenant(t)' \subseteq OfTenant(t)
        BY <1>7, <2>1 DEF OfTenant
      <3> QED
        BY <1>4, <3>1
    <2>2. CASE u.tenant = t
      <3> DEFINE S == OfTenant(t) \ {u}
      <3>1. OfTenant(t)' = S \cup {v} /\ u \in OfTenant(t)
        BY <1>7, <2>2 DEF OfTenant
      <3>2. IsFiniteSet(S) /\ Cardinality(S) = Cardinality(OfTenant(t)) - 1
        BY <1>2, <3>1, FS_RemoveElement
      <3> HIDE DEF S
      <3>3. Cardinality(S \cup {v}) <= Cardinality(S) + 1
        <4>1. Cardinality(S) \in Nat
          BY <3>2, FS_CardinalityType
        <4>2. Cardinality(S \cup {v}) = IF v \in S THEN Cardinality(S) ELSE Cardinality(S) + 1
          BY <3>2, FS_AddElement
        <4> QED
          BY <4>1, <4>2
      <3> QED
        BY <1>2, <3>1, <3>2, <3>3
    <2> QED  BY <2>1, <2>2
  <1> QED
    BY <1>2, <1>3, <1>5, <1>6, <1>7 DEF WritesOwn

LEMMA TenantInvStep ==
    TenantInv /\ [TenantNext]_tenantVars => TenantInv' /\ IsolatedStep
  <1> SUFFICES ASSUME TenantInv, [TenantNext]_tenantVars PROVE TenantInv' /\ IsolatedStep
    OBVIOUS
  <1>1. CASE UNCHANGED <<users, lastId, tm, crowded>>
    <2>1. TenantTypeOK' /\ ProperInv' /\ RowsInv'
      BY <1>1 DEF TenantInv, TenantTypeOK, ProperInv, Proper, RowsInv
    <2>2. \A t \in Slugs : OfTenant(t)' = OfTenant(t)
      BY <1>1 DEF OfTenant
    <2>3. RoomForUsers'
      BY <1>1, <2>2 DEF TenantInv, RoomForUsers, Inserting
    <2>4. IsolatedStep
      BY <1>1 DEF IsolatedStep
    <2> QED
      BY <2>1, <2>3, <2>4 DEF TenantInv
  <1>2. ASSUME NEW r \in TmRequests, MovesOne(r), WritesOwn(r) PROVE TenantInv' /\ IsolatedStep
    <2>1. TenantTypeOK' /\ RowsInv'
      BY <1>2, RowsStep DEF TenantTypeOK, MovesOne
    <2>2. ProperInv'
      BY <1>2 DEF TenantInv, ProperInv, MovesOne
    <2>3. IsolatedStep
      BY <1>2, RowsStep DEF IsolatedStep, MovesOne
    <2>4. RoomForUsers'
      <3> SUFFICES ASSUME NEW t \in Slugs, t \notin crowded'
                   PROVE  (/\ Cardinality(OfTenant(t)) <= MaxUsers
                           /\ \A p \in TmRequests : Inserting(p, t) =>
                                 /\ Cardinality(OfTenant(t)) < MaxUsers
                                 /\ \A q \in TmRequests : Inserting(q, t) => q = p)'
        BY DEF RoomForUsers
      <3> DEFINE old == Cardinality(OfTenant(t))
                 new == Cardinality(OfTenant(t)')
      <3>1. /\ old \in Nat /\ new \in Nat /\ MaxUsers \in Nat
            /\ new <= old \/ (Inserting(r, t) /\ tm'[r].pc # "insert" /\ new = old + 1)
        BY <1>2, CountStep, TenantAssumption
      <3>2. /\ old <= MaxUsers
            /\ \A p \in TmRequests : Inserting(p, t) =>
                  old < MaxUsers /\ \A q \in TmRequests : Inserting(q, t) => q = p
        BY <1>2 DEF TenantInv, RoomForUsers, MovesOne
      <3>3. \A q \in TmRequests : q # r => (Inserting(q, t)' <=> Inserting(q, t))
        BY <1>2 DEF MovesOne, Inserting
      <3> HIDE DEF old, new
      <3>4. CASE Inserting(r, t)'
        <4>1. tm[r].pc = "valid" /\ tm[r].tenant = t /\ QuotaLeft(t)
          BY <1>2, <3>4 DEF MovesOne, Inserting
        <4>2. \A q \in TmRequests : ~Inserting(q, t)
          BY <1>2, <3>4, <4>1 DEF MovesOne, Inserting
        <4>3. new <= old /\ old < MaxUsers
          BY <3>1, <4>1, <4>2 DEF QuotaLeft, old
        <4>4. new < MaxUsers /\ new <= MaxUsers
          BY <3>1, <4>3
        <4> QED
          BY <3>3, <3>4, <4>2, <4>4 DEF new
      <3>5. CASE ~Inserting(r, t)' /\ new <= old
        <4>1. new <= MaxUsers /\ (old < MaxUsers => new < MaxUsers)
          BY <3>1, <3>2, <3>5
        <4> QED
          BY <3>2, <3>3, <3>5, <4>1 DEF new
      <3>6. CASE ~Inserting(r, t)' /\ Inserting(r, t) /\ new = old + 1
        <4>1. new <= MaxUsers
          BY <3>1, <3>2, <3>6
        <4>2. \A q \in TmRequests : ~Inserting(q, t)'
          BY <3>2, <3>3, <3>6
        <4> QED
          BY <4>1, <4>2 DEF new
      <3>7. Inserting(r, t)' => tm'[r].pc = "insert"
        BY DEF Inserting
      <3> QED
        BY <3>1, <3>4, <3>5, <3>6
    <2> QED
      BY <2>1, <2>2, <2>3, <2>4 DEF TenantInv
  <1> QED
    BY <1>1, <1>2, TenantSteps

LEMMA TenantInvInit ==
    TenantInit => TenantInv
  <1> SUFFICES ASSUME TenantInit PROVE TenantInv
    OBVIOUS
  <1> DEFINE first == [id |-> 1, tenant |-> Seed, email |-> CHOOSE e \in Emails : TRUE, role |-> "admin"]
  <1>1. (CHOOSE e \in Emails : TRUE) \in Emails
    BY TenantAssumption
  <1>2. first \in UserRows /\ first.id = 1
    BY <1>1, TenantAssumption DEF UserRows, Roles
  <1>3. users = {first} /\ lastId = 1 /\ tm = [r \in TmRequests |-> Start]
    BY DEF TenantInit
  <1> HIDE DEF first
  <1>4. Start \in TmStates /\ Start.pc = "new" /\ Start.seen = {}
    BY DEF Start, NoRow, TmStates, TmPc
  <1>5. TenantTypeOK
    BY <1>2, <1>3, <1>4, FS_Singleton DEF TenantTypeOK
  <1>6. ProperInv /\ RowsInv
    BY <1>2, <1>3, <1>4 DEF ProperInv, Proper, RowsInv
  <1>7. RoomForUsers
    <2>1. ASSUME NEW t \in Slugs PROVE Cardinality(OfTenant(t)) <= MaxUsers
      <3>1. OfTenant(t) \in SUBSET {first}
        BY <1>3 DEF OfTenant
      <3>2. IsFiniteSet({first}) /\ Cardinality({first}) = 1
        BY FS_Singleton
      <3>3. Cardinality(OfTenant(t)) <= 1 /\ Cardinality(OfTenant(t)) \in Nat
        <4>1. IsFiniteSet(OfTenant(t)) /\ Cardinality(OfTenant(t)) <= Cardinality({first})
          BY <3>1, <3>2, FS_Subset
        <4> QED
          BY <3>2, <4>1, FS_CardinalityType
      <3> QED
        BY <3>3, TenantAssumption
    <2>2. \A r \in TmRequests, t \in Slugs : ~Inserting(r, t)
      BY <1>3, <1>4 DEF Inserting
    <2> QED
      BY <2>1, <2>2 DEF RoomForUsers
  <1> QED
    BY <1>5, <1>6, <1>7 DEF TenantInv

\* As many emails as users, if no two users of the tenant have the same.
LEMMA EmailsCount ==
    ASSUME NEW S, IsFiniteSet(S), \A u, v \in S : u.email = v.email => u = v
    PROVE  Cardinality({u.email : u \in S}) = Cardinality(S)
  <1> DEFINE T == {u.email : u \in S}
             f == [u \in S |-> u.email]
  <1>1. f \in Bijection(S, T)
    BY DEF Bijection, Injection, Surjection, IsInjective
  <1>2. ExistsBijection(S, T)
    BY <1>1 DEF ExistsBijection
  <1> QED
    BY <1>2, FS_Bijection

(***************************************************************************)
(* Tenants are kept apart, for any tenants, users and requests: no step    *)
(* of a request touches or answers with a row of another tenant, a quota   *)
(* is exceeded only after two requests have passed its check at once, and  *)
(* within a tenant an email belongs to one user.                           *)
(***************************************************************************)
THEOREM TenantsTheorem ==
    TenantSpec => TenantsKeptApart
  <1>1. TenantInit => TenantInv
    BY TenantInvInit
  <1>2. TenantInv /\ [TenantNext]_tenantVars => TenantInv'
    BY TenantInvStep
  <1>3. TenantInv => QuotaOnlyByRace
    <2> SUFFICES ASSUME TenantInv, NEW t \in Slugs
                 PROVE  /\ Cardinality(OfTenant(t)) > MaxUsers => t \in crowded
                        /\ Cardinality({u.email : u \in OfTenant(t)}) = Cardinality(OfTenant(t))
      BY DEF QuotaOnlyByRace
    <2>1. IsFiniteSet(OfTenant(t)) /\ Cardinality(OfTenant(t)) \in Nat
      <3>1. IsFiniteSet(users) /\ OfTenant(t) \in SUBSET users
        BY DEF TenantInv, TenantTypeOK, OfTenant
      <3> QED
        BY <3>1, FS_Subset, FS_CardinalityType
    <2>2. Cardinality(OfTenant(t)) > MaxUsers => t \in crowded
      BY <2>1, TenantAssumption DEF TenantInv, RoomForUsers
    <2>3. \A u, v \in OfTenant(t) : u.email = v.email => u = v
      BY DEF TenantInv, RowsInv, OfTenant
    <2> QED
      BY <2>1, <2>2, <2>3, EmailsCount
  <1>4. TenantInv /\ TenantInv' /\ [TenantNext]_tenantVars => [IsolatedStep /\ QuotaOnlyByRace']_tenantVars
    <2>1. TenantInv' => QuotaOnlyByRace'
      BY <1>3, PTL
    <2> QED
      BY <2>1, TenantInvStep
  <1> QED
    BY <1>1, <1>2, <1>4, PTL DEF TenantSpec, TenantsKeptApart

-----------------------------------------------------------------------------
(* The stock of the bookstore's gateway *)

Word == 0 .. (WordSize - 1)
GwStages == {"new", "read", "list", "clear", "deduct", "insert", "invalidate", "panic",
             "200", "400", "404", "503"}

GatewayTypeOK ==
    /\ books \in [Shelf -> Word \cup {NoBook}]
    /\ orders \in [GwRequests -> {"none", "confirmed", "cancelled"}]
    /\ bookCache \in [Shelf -> Word \cup {NoBook}]
    /\ gw \in [GwRequests -> [pc : GwStages, wanted : Shelf \cup {NoBook}, book : Shelf \cup {NoBook},
                              quantity : Word, snapshot : Word \cup {NoBook}]]
    /\ overlapped \subseteq Shelf

\* An order is for a book that is there, and is inserted before it is answered; a
\* request that is not an order has no book.
OrderStageInv ==
    \A r \in GwRequests :
        /\ gw[r].pc = "read" => gw[r].wanted \in Shelf
        /\ gw[r].pc \in {"deduct", "insert", "invalidate"} => gw[r].book # NoBook
        /\ gw[r].pc \in {"new", "read", "list", "clear"} => gw[r].book = NoBook
        /\ gw[r].book # NoBook => books[gw[r].book] # NoBook
        /\ gw[r].book # NoBook /\ gw[r].pc \in {"invalidate", "200"} => orders[r] # "none"

\* The stock is what was there less what was sold, modulo the word.
SoldInv ==
    \A b \in Shelf :
        /\ IsFiniteSet(Copies(b))
        /\ books[b] # NoBook => books[b] = (Stock - Sold(b)) % WordSize

\* Until two orders for a book overlap, the one that has passed the check finds
\* what it has seen, and nothing wraps.
AloneInv ==
    \A b \in Shelf : b \notin overlapped /\ books[b] # NoBook =>
        /\ books[b] = Stock - Sold(b)
        /\ \A r \in Ordering(b) : gw[r].quantity <= books[b] /\ \A s \in Ordering(b) : r = s

\* Only a book that is there is cached.
BookCacheInv ==
    /\ GatewayCacheFresh
    /\ \A b \in Shelf : bookCache[b] # NoBook => books[b] # NoBook

GatewayInv == GatewayTypeOK /\ OrderStageInv /\ SoldInv /\ AloneInv /\ BookCacheInv

\* The sum of the quantities changes with the set of orders that have deducted.
LEMMA SoldTheSame ==
    ASSUME NEW b, Deducted(b)' = Deducted(b), \A r \in Deducted(b) : gw'[r].quantity = gw[r].quantity
    PROVE  Copies(b)' = Copies(b) /\ Sold(b)' = Sold(b)
<1>1. Copies(b)' = Copies(b)
  BY DEF Copies
<1> QED BY <1>1 DEF Sold

\* n times r.
LEMMA CopiesCounted ==
    ASSUME NEW r, NEW n \in Nat
    PROVE  IsFiniteSet({r} \X (1 .. n)) /\ Cardinality({r} \X (1 .. n)) = n
<1> DEFINE S == {r}
           T == 1 .. n
<1>1. IsFiniteSet(S) /\ Cardinality(S) = 1
  BY FS_Singleton
<1>2. IsFiniteSet(T) /\ Cardinality(T) = n
  <2>1. IsFiniteSet(1 .. n) /\ Cardinality(1 .. n) = IF 1 > n THEN 0 ELSE n - 1 + 1
    BY FS_Interval
  <2> QED BY <2>1
<1> HIDE DEF S, T
<1>3. IsFiniteSet(S \X T) /\ Cardinality(S \X T) = Cardinality(S) * Cardinality(T)
  BY <1>1, <1>2, FS_Product
<1>4. IsFiniteSet(S \X T) /\ Cardinality(S \X T) = n
  BY <1>1, <1>2, <1>3
<1> QED BY <1>4 DEF S, T

LEMMA SoldMore ==
    ASSUME GatewayTypeOK, NEW b, IsFiniteSet(Copies(b)), NEW r \in GwRequests, r \notin Deducted(b),
           Deducted(b)' = Deducted(b) \cup {r},
           \A s \in GwRequests : gw'[s].quantity = gw[s].quantity
    PROVE  Sold(b) \in Nat /\ Sold(b)' = Sold(b) + gw[r].quantity /\ IsFiniteSet(Copies(b)')
<1> DEFINE A == Copies(b)
           q == gw[r].quantity
           C == {r} \X (1 .. q)
<1>1. q \in Nat
  BY GatewayAssumption DEF GatewayTypeOK, Word
<1>2. Cardinality(A) \in Nat
  BY FS_CardinalityType
<1>3. IsFiniteSet(C) /\ Cardinality(C) = q
  BY <1>1, CopiesCounted
<1>4. A \cap C = {}
  BY DEF Copies
<1>5. Copies(b)' = A \cup C
  <2>1. \A s \in Deducted(b) \cup {r} : gw'[s].quantity = gw[s].quantity
    BY DEF Deducted
  <2> QED BY <2>1 DEF Copies
<1> HIDE DEF A, C
<1>6. /\ IsFiniteSet(A \cup C)
      /\ Cardinality(A \cup C) = Cardinality(A) + Cardinality(C) - Cardinality(A \cap C)
  BY <1>3, FS_Union DEF A
<1>7. Cardinality(A \cap C) = 0
  BY <1>4, FS_EmptySet
<1>8. Cardinality(A \cup C) = Cardinality(A) + q
  BY <1>1, <1>2, <1>3, <1>6, <1>7
<1> QED BY <1>2, <1>5, <1>6, <1>8 DEF Sold, A

\* Division with remainder, and that a difference may be reduced before it is taken.
LEMMA Remainder ==
    ASSUME NEW a \in Int, NEW W \in Nat \ {0}
    PROVE  (a % W) \in 0 .. (W - 1) /\ \E d \in Int : a - (a % W) = W * d
<1>1. (a % W) \in 0 .. (W - 1)
  OBVIOUS
<1>2. a - (a % W) = W * (a \div W) /\ a \div W \in Int
  OBVIOUS
<1> QED BY <1>1, <1>2

LEMMA RemainderOfDifference ==
    ASSUME NEW a \in Int, NEW q \in Int, NEW W \in Nat \ {0}
    PROVE  ((a % W) - q) % W = (a - q) % W
<1> DEFINE x == a % W
           y == (x - q) % W
           z == (a - q) % W
<1>1. x \in 0 .. (W - 1) /\ \E d \in Int : a - x = W * d
  BY Remainder
<1>2. PICK d \in Int : a - x = W * d
  BY <1>1
<1>3. x - q \in Int /\ a - q \in Int
  BY <1>1
<1>4. y \in 0 .. (W - 1) /\ \E e \in Int : (x - q) - y = W * e
  <2> HIDE DEF x
  <2> QED BY <1>3, Remainder
<1>5. z \in 0 .. (W - 1) /\ \E e \in Int : (a - q) - z = W * e
  BY <1>3, Remainder
<1> HIDE DEF x, y, z
<1>6. PICK e \in Int : (x - q) - y = W * e
  BY <1>4
<1>7. PICK f \in Int : (a - q) - z = W * f
  BY <1>5
<1> DEFINE k == (d + e) - f
<1>8. z - y = W * k
  <2>1. z - y = (W * d + W * e) - W * f
    BY <1>1, <1>2, <1>4, <1>5, <1>6, <1>7
  <2>2. (W * d + W * e) - W * f = W * k
    OBVIOUS
  <2> QED BY <2>1, <2>2
<1>9. k \in Int
  OBVIOUS
<1> HIDE DEF k
<1>10. k = 0
  <2>1. CASE k >= 1
    <3>1. W * k >= W
      BY <1>9, <2>1
    <3> QED BY <1>4, <1>5, <1>8, <3>1
  <2>2. CASE k <= -1
    <3>1. W * k <= -W
      BY <1>9, <2>2
    <3> QED BY <1>4, <1>5, <1>8, <3>1
  <2> QED BY <1>9, <2>1, <2>2
<1>11. W * k = 0
  BY <1>10
<1>12. y = z
  BY <1>4, <1>5, <1>8, <1>11
<1> QED BY <1>12 DEF x, y, z

\* Steps after which the same orders have deducted keep the accounts.
LEMMA QuietStep ==
    ASSUME GatewayInv, UNCHANGED <<books, overlapped>>, GatewayTypeOK',
           \A b \in Shelf : /\ Deducted(b)' = Deducted(b)
                            /\ \A r \in Deducted(b) : gw'[r].quantity = gw[r].quantity
                            /\ Ordering(b)' = Ordering(b)
                            /\ \A r \in Ordering(b) : gw'[r].quantity = gw[r].quantity
    PROVE  SoldInv' /\ AloneInv'
<1>1. \A b \in Shelf : Sold(b)' = Sold(b) /\ Copies(b)' = Copies(b)
  BY SoldTheSame
<1>2. SoldInv'
  BY <1>1 DEF GatewayInv, SoldInv
<1>3. AloneInv'
  BY <1>1 DEF GatewayInv, AloneInv
<1> QED BY <1>2, <1>3

LEMMA ShedKeeps ==
    ASSUME GatewayInv, NEW r \in GwRequests, Shed(r)
    PROVE  GatewayInv'
<1> USE GatewayAssumption DEF GwGo
<1>1. GatewayTypeOK'
  BY DEF GatewayInv, GatewayTypeOK, OrderStageInv, GwStages, Word, Shed
<1>2. OrderStageInv'
  BY DEF GatewayInv, GatewayTypeOK, OrderStageInv, Shed
<1>3. SoldInv' /\ AloneInv'
  <2>1. UNCHANGED <<books, overlapped>>
    BY DEF Shed
  <2>2. ASSUME NEW k \in Shelf
        PROVE  /\ Deducted(k)' = Deducted(k) /\ Ordering(k)' = Ordering(k)
               /\ \A s \in GwRequests : gw'[s].quantity = gw[s].quantity
    BY DEF GatewayInv, GatewayTypeOK, OrderStageInv, Deducted, Ordering, Shed
  <2> QED BY <1>1, <2>1, <2>2, QuietStep DEF Deducted, Ordering
<1>4. BookCacheInv'
  BY DEF GatewayInv, GatewayTypeOK, OrderStageInv, BookCacheInv, GatewayCacheFresh, Shed
<1> QED BY <1>1, <1>2, <1>3, <1>4 DEF GatewayInv

LEMMA GetBookKeeps ==
    ASSUME GatewayInv, NEW r \in GwRequests, NEW b \in Shelf, GetBook(r, b)
    PROVE  GatewayInv'
<1> USE GatewayAssumption DEF GwGo
<1>0. PICK w \in [pc : {"200", "read"}, wanted : Shelf \cup {NoBook}, book : {NoBook},
                 quantity : {gw[r].quantity}, snapshot : {gw[r].snapshot}] :
         /\ gw[r].pc = "new" /\ gw[r].book = NoBook /\ gw' = [gw EXCEPT ![r] = w]
         /\ w.pc = "read" => w.wanted \in Shelf
  <2>1. gw[r] \in [pc : GwStages, wanted : Shelf \cup {NoBook}, book : Shelf \cup {NoBook},
                   quantity : Word, snapshot : Word \cup {NoBook}] /\ gw[r].book = NoBook
    BY DEF GatewayInv, GatewayTypeOK, OrderStageInv, GetBook
  <2>2. gw' = [gw EXCEPT ![r] = [gw[r] EXCEPT !.pc = "200"]]
        \/ gw' = [gw EXCEPT ![r] = [gw[r] EXCEPT !.pc = "read", !.wanted = b]]
    BY DEF GetBook
  <2>3. CASE gw' = [gw EXCEPT ![r] = [gw[r] EXCEPT !.pc = "200"]]
    <3> DEFINE w == [gw[r] EXCEPT !.pc = "200"]
    <3>1. w \in [pc : {"200", "read"}, wanted : Shelf \cup {NoBook}, book : {NoBook},
                 quantity : {gw[r].quantity}, snapshot : {gw[r].snapshot}] /\ w.pc = "200"
      BY <2>1
    <3> HIDE DEF w
    <3> QED BY <2>1, <2>3, <3>1 DEF GetBook, w
  <2>4. CASE gw' = [gw EXCEPT ![r] = [gw[r] EXCEPT !.pc = "read", !.wanted = b]]
    <3> DEFINE w == [gw[r] EXCEPT !.pc = "read", !.wanted = b]
    <3>1. w \in [pc : {"200", "read"}, wanted : Shelf \cup {NoBook}, book : {NoBook},
                 quantity : {gw[r].quantity}, snapshot : {gw[r].snapshot}] /\ w.wanted = b
      BY <2>1
    <3> HIDE DEF w
    <3> QED BY <2>1, <2>4, <3>1 DEF GetBook, w
  <2> QED BY <2>2, <2>3, <2>4
<1>1. GatewayTypeOK'
  BY <1>0 DEF GatewayInv, GatewayTypeOK, GwStages, GetBook
<1>2. OrderStageInv'
  BY <1>0 DEF GatewayInv, GatewayTypeOK, OrderStageInv, GetBook
<1>3. SoldInv' /\ AloneInv'
  <2>1. UNCHANGED <<books, overlapped>>
    BY DEF GetBook
  <2>2. ASSUME NEW k \in Shelf
        PROVE  /\ Deducted(k)' = Deducted(k) /\ Ordering(k)' = Ordering(k)
               /\ \A s \in GwRequests : gw'[s].quantity = gw[s].quantity
    BY <1>0 DEF GatewayInv, GatewayTypeOK, OrderStageInv, Deducted, Ordering
  <2> QED BY <1>1, <2>1, <2>2, QuietStep DEF Deducted, Ordering
<1>4. BookCacheInv'
  BY <1>0 DEF GatewayInv, GatewayTypeOK, OrderStageInv, BookCacheInv, GatewayCacheFresh, GetBook
<1> QED BY <1>1, <1>2, <1>3, <1>4 DEF GatewayInv

LEMMA ReadBookKeeps ==
    ASSUME GatewayInv, NEW r \in GwRequests, ReadBook(r)
    PROVE  GatewayInv'
<1> USE GatewayAssumption DEF GwGo
<1>1. GatewayTypeOK'
  BY DEF GatewayInv, GatewayTypeOK, OrderStageInv, GwStages, Word, ReadBook
<1>2. OrderStageInv'
  BY DEF GatewayInv, GatewayTypeOK, OrderStageInv, ReadBook
<1>3. SoldInv' /\ AloneInv'
  <2>1. UNCHANGED <<books, overlapped>>
    BY DEF ReadBook
  <2>2. ASSUME NEW k \in Shelf
        PROVE  /\ Deducted(k)' = Deducted(k) /\ Ordering(k)' = Ordering(k)
               /\ \A s \in GwRequests : gw'[s].quantity = gw[s].quantity
    BY DEF GatewayInv, GatewayTypeOK, OrderStageInv, Deducted, Ordering, ReadBook
  <2> QED BY <1>1, <2>1, <2>2, QuietStep DEF Deducted, Ordering
<1>4. BookCacheInv'
  BY DEF GatewayInv, GatewayTypeOK, OrderStageInv, BookCacheInv, GatewayCacheFresh, ReadBook
<1> QED BY <1>1, <1>2, <1>3, <1>4 DEF GatewayInv

LEMMA ListBooksKeeps ==
    ASSUME GatewayInv, NEW r \in GwRequests, ListBooks(r)
    PROVE  GatewayInv'
<1> USE GatewayAssumption DEF GwGo
<1>1. GatewayTypeOK'
  BY DEF GatewayInv, GatewayTypeOK, OrderStageInv, GwStages, Word, ListBooks
<1>2. OrderStageInv'
  BY DEF GatewayInv, GatewayTypeOK, OrderStageInv, ListBooks
<1>3. SoldInv' /\ AloneInv'
  <2>1. UNCHANGED <<books, overlapped>>
    BY DEF ListBooks
  <2>2. ASSUME NEW k \in Shelf
        PROVE  /\ Deducted(k)' = Deducted(k) /\ Ordering(k)' = Ordering(k)
               /\ \A s \in GwRequests : gw'[s].quantity = gw[s].quantity
    <3>1. PICK l \in {"list", "200"} : gw' = [gw EXCEPT ![r].pc = l] /\ gw[r].pc \in {"new", "list"}
      BY DEF ListBooks
    <3> QED BY <3>1 DEF GatewayInv, GatewayTypeOK, OrderStageInv, Deducted, Ordering
  <2> QED BY <1>1, <2>1, <2>2, QuietStep DEF Deducted, Ordering
<1>4. BookCacheInv'
  BY DEF GatewayInv, GatewayTypeOK, OrderStageInv, BookCacheInv, GatewayCacheFresh, ListBooks
<1> QED BY <1>1, <1>2, <1>3, <1>4 DEF GatewayInv

LEMMA ClearCacheKeeps ==
    ASSUME GatewayInv, NEW r \in GwRequests, ClearCache(r)
    PROVE  GatewayInv'
<1> USE GatewayAssumption DEF GwGo
<1>1. GatewayTypeOK'
  BY DEF GatewayInv, GatewayTypeOK, OrderStageInv, GwStages, Word, ClearCache
<1>2. OrderStageInv'
  BY DEF GatewayInv, GatewayTypeOK, OrderStageInv, ClearCache
<1>3. SoldInv' /\ AloneInv'
  <2>1. UNCHANGED <<books, overlapped>>
    BY DEF ClearCache
  <2>2. ASSUME NEW k \in Shelf
        PROVE  /\ Deducted(k)' = Deducted(k) /\ Ordering(k)' = Ordering(k)
               /\ \A s \in GwRequests : gw'[s].quantity = gw[s].quantity
    BY DEF GatewayInv, GatewayTypeOK, OrderStageInv, Deducted, Ordering, ClearCache
  <2> QED BY <1>1, <2>1, <2>2, QuietStep DEF Deducted, Ordering
<1>4. BookCacheInv'
  BY DEF GatewayInv, GatewayTypeOK, OrderStageInv, BookCacheInv, GatewayCacheFresh, ClearCache
<1> QED BY <1>1, <1>2, <1>3, <1>4 DEF GatewayInv

LEMMA InsertOrderKeeps ==
    ASSUME GatewayInv, NEW r \in GwRequests, InsertOrder(r)
    PROVE  GatewayInv'
<1> USE GatewayAssumption DEF GwGo
<1>1. GatewayTypeOK'
  BY DEF GatewayInv, GatewayTypeOK, OrderStageInv, GwStages, Word, InsertOrder
<1>2. OrderStageInv'
  BY DEF GatewayInv, GatewayTypeOK, OrderStageInv, InsertOrder
<1>3. SoldInv' /\ AloneInv'
  <2>1. UNCHANGED <<books, overlapped>>
    BY DEF InsertOrder
  <2>2. ASSUME NEW k \in Shelf
        PROVE  /\ Deducted(k)' = Deducted(k) /\ Ordering(k)' = Ordering(k)
               /\ \A s \in GwRequests : gw'[s].quantity = gw[s].quantity
    BY DEF GatewayInv, GatewayTypeOK, OrderStageInv, Deducted, Ordering, InsertOrder
  <2> QED BY <1>1, <2>1, <2>2, QuietStep DEF Deducted, Ordering
<1>4. BookCacheInv'
  BY DEF GatewayInv, GatewayTypeOK, OrderStageInv, BookCacheInv, GatewayCacheFresh, InsertOrder
<1> QED BY <1>1, <1>2, <1>3, <1>4 DEF GatewayInv

LEMMA InvalidateKeeps ==
    ASSUME GatewayInv, NEW r \in GwRequests, Invalidate(r)
    PROVE  GatewayInv'
<1> USE GatewayAssumption DEF GwGo
<1>1. GatewayTypeOK'
  BY DEF GatewayInv, GatewayTypeOK, OrderStageInv, GwStages, Word, Invalidate
<1>2. OrderStageInv'
  BY DEF GatewayInv, GatewayTypeOK, OrderStageInv, Invalidate
<1>3. SoldInv' /\ AloneInv'
  <2>1. UNCHANGED <<books, overlapped>>
    BY DEF Invalidate
  <2>2. ASSUME NEW k \in Shelf
        PROVE  /\ Deducted(k)' = Deducted(k) /\ Ordering(k)' = Ordering(k)
               /\ \A s \in GwRequests : gw'[s].quantity = gw[s].quantity
    BY DEF GatewayInv, GatewayTypeOK, OrderStageInv, Deducted, Ordering, Invalidate
  <2> QED BY <1>1, <2>1, <2>2, QuietStep DEF Deducted, Ordering
<1>4. BookCacheInv'
  BY DEF GatewayInv, GatewayTypeOK, OrderStageInv, BookCacheInv, GatewayCacheFresh, Invalidate
<1> QED BY <1>1, <1>2, <1>3, <1>4 DEF GatewayInv

LEMMA CancelOrderKeeps ==
    ASSUME GatewayInv, NEW r \in GwRequests, NEW o \in GwRequests, CancelOrder(r, o)
    PROVE  GatewayInv'
<1> USE GatewayAssumption DEF GwGo
<1>1. GatewayTypeOK'
  BY DEF GatewayInv, GatewayTypeOK, OrderStageInv, GwStages, Word, CancelOrder
<1>2. OrderStageInv'
  BY DEF GatewayInv, GatewayTypeOK, OrderStageInv, CancelOrder
<1>3. SoldInv' /\ AloneInv'
  <2>1. UNCHANGED <<books, overlapped>>
    BY DEF CancelOrder
  <2>2. ASSUME NEW k \in Shelf
        PROVE  /\ Deducted(k)' = Deducted(k) /\ Ordering(k)' = Ordering(k)
               /\ \A s \in GwRequests : gw'[s].quantity = gw[s].quantity
    BY DEF GatewayInv, GatewayTypeOK, OrderStageInv, Deducted, Ordering, CancelOrder
  <2> QED BY <1>1, <2>1, <2>2, QuietStep DEF Deducted, Ordering
<1>4. BookCacheInv'
  BY DEF GatewayInv, GatewayTypeOK, OrderStageInv, BookCacheInv, GatewayCacheFresh, CancelOrder
<1> QED BY <1>1, <1>2, <1>3, <1>4 DEF GatewayInv

LEMMA CreateBookKeeps ==
    ASSUME GatewayInv, NEW r \in GwRequests, NEW b \in Shelf, CreateBook(r, b)
    PROVE  GatewayInv'
<1>0. /\ gw[r].pc = "new" /\ books[b] = NoBook /\ books' = [books EXCEPT ![b] = Stock]
      /\ gw' = [gw EXCEPT ![r].pc = "clear"] /\ UNCHANGED <<orders, bookCache, bookList, overlapped>>
      /\ Stock \in Word /\ Stock # NoBook
  BY GatewayAssumption DEF CreateBook, GwGo, Word, NoBook
<1>1. GatewayTypeOK'
  BY <1>0 DEF GatewayInv, GatewayTypeOK, GwStages
<1>2. OrderStageInv'
  BY <1>0 DEF GatewayInv, GatewayTypeOK, OrderStageInv
<1>3. \A k \in Shelf : Deducted(k)' = Deducted(k) /\ Ordering(k)' = Ordering(k)
  BY <1>0 DEF GatewayInv, GatewayTypeOK, OrderStageInv, Deducted, Ordering
<1>4. \A s \in GwRequests : gw'[s].quantity = gw[s].quantity
  BY <1>0 DEF GatewayInv, GatewayTypeOK
<1>5. \A k \in Shelf : Copies(k)' = Copies(k) /\ Sold(k)' = Sold(k)
  BY <1>3, <1>4, SoldTheSame DEF Deducted
<1>6. Deducted(b) = {} /\ Ordering(b) = {}
  BY <1>0, GatewayAssumption DEF GatewayInv, GatewayTypeOK, OrderStageInv, Deducted, Ordering
<1>7. Sold(b) = 0
  <2>1. Copies(b) = {}
    BY <1>6 DEF Copies
  <2> QED BY <2>1, FS_EmptySet DEF Sold
<1>8. Stock % WordSize = Stock /\ Stock - 0 = Stock
  BY GatewayAssumption
<1>9. \A k \in Shelf : k # b => books'[k] = books[k]
  BY <1>0 DEF GatewayInv, GatewayTypeOK
<1>10. books'[b] = Stock
  BY <1>0 DEF GatewayInv, GatewayTypeOK
<1>11. SoldInv'
  BY <1>5, <1>7, <1>8, <1>9, <1>10 DEF GatewayInv, SoldInv
<1>12. AloneInv'
  <2> SUFFICES ASSUME NEW k \in Shelf, k \notin overlapped', books'[k] # NoBook
               PROVE  /\ books'[k] = Stock - Sold(k)'
                      /\ \A s \in Ordering(k)' : gw'[s].quantity <= books'[k] /\ \A t \in Ordering(k)' : s = t
    BY DEF AloneInv
  <2>1. CASE k = b
    BY <1>3, <1>5, <1>6, <1>7, <1>8, <1>10, <2>1
  <2>2. CASE k # b
    BY <1>0, <1>3, <1>4, <1>5, <1>9, <2>2 DEF GatewayInv, AloneInv, Ordering
  <2> QED BY <2>1, <2>2
<1>13. BookCacheInv'
  <2>1. \A k \in Shelf : bookCache[k] # NoBook => k # b /\ books'[k] = books[k]
    BY <1>0, <1>9 DEF GatewayInv, BookCacheInv
  <2>2. \A s \in GwRequests : gw'[s].book = gw[s].book
            /\ (gw[s].pc \in {"insert", "invalidate"} => gw'[s].pc = gw[s].pc)
    BY <1>0 DEF GatewayInv, GatewayTypeOK
  <2> QED BY <1>0, <2>1, <2>2 DEF GatewayInv, BookCacheInv, GatewayCacheFresh
<1> QED BY <1>1, <1>2, <1>11, <1>12, <1>13 DEF GatewayInv

LEMMA CheckStockKeeps ==
    ASSUME GatewayInv, NEW r \in GwRequests, NEW b \in Shelf, NEW q \in Quantities, CheckStock(r, b, q)
    PROVE  GatewayInv'
<1> DEFINE w == [gw[r] EXCEPT !.pc = "deduct", !.book = b, !.quantity = q, !.snapshot = books[b]]
<1>0. gw[r].pc = "new" /\ gw[r].book = NoBook /\ UNCHANGED <<books, orders, bookCache, bookList>>
  BY DEF CheckStock, GatewayInv, OrderStageInv
<1>1. CASE GwGo(r, "400") /\ UNCHANGED overlapped
  <2>1. gw' = [gw EXCEPT ![r].pc = "400"]
    BY <1>1 DEF GwGo
  <2>2. GatewayTypeOK'
    BY <1>0, <1>1, <2>1 DEF GatewayInv, GatewayTypeOK, GwStages
  <2>3. OrderStageInv'
    BY <1>0, <2>1 DEF GatewayInv, GatewayTypeOK, OrderStageInv
  <2>4. SoldInv' /\ AloneInv'
    <3>1. \A k \in Shelf : Deducted(k)' = Deducted(k) /\ Ordering(k)' = Ordering(k)
      BY <1>0, <2>1 DEF GatewayInv, GatewayTypeOK, Deducted, Ordering
    <3>2. \A s \in GwRequests : gw'[s].quantity = gw[s].quantity
      BY <2>1 DEF GatewayInv, GatewayTypeOK
    <3> QED BY <1>0, <1>1, <2>2, <3>1, <3>2, QuietStep DEF Deducted, Ordering
  <2>5. BookCacheInv'
    BY <1>0, <2>1 DEF GatewayInv, GatewayTypeOK, BookCacheInv, GatewayCacheFresh
  <2> QED BY <2>2, <2>3, <2>4, <2>5 DEF GatewayInv
<1>2. CASE /\ InStock(b, q) /\ gw' = [gw EXCEPT ![r] = w]
           /\ overlapped' = IF Ordering(b) # {} THEN overlapped \cup {b} ELSE overlapped
  <2>1. /\ w \in [pc : {"deduct"}, wanted : Shelf \cup {NoBook}, book : {b},
                  quantity : {q}, snapshot : Word \cup {NoBook}]
        /\ q \in Word /\ b # NoBook /\ books[b] # NoBook /\ q <= books[b]
    <3>1. gw[r] \in [pc : GwStages, wanted : Shelf \cup {NoBook}, book : Shelf \cup {NoBook},
                     quantity : Word,
                     snapshot : Word \cup {NoBook}] /\ books[b] \in Word \cup {NoBook}
      BY DEF GatewayInv, GatewayTypeOK
    <3>2. books[b] # NoBook /\ books[b] >= q
      BY <1>2 DEF InStock
    <3>3. q \in Word /\ b # NoBook
      BY GatewayAssumption DEF Word
    <3>4. q \in Int /\ books[b] \in Int
      BY <3>1, <3>3, GatewayAssumption DEF Word, NoBook
    <3>5. q <= books[b]
      BY <3>2, <3>4
    <3> QED BY <3>1, <3>2, <3>3, <3>5
  <2> HIDE DEF w
  <2>2. GatewayTypeOK'
    BY <1>0, <1>2, <2>1 DEF GatewayInv, GatewayTypeOK, GwStages
  <2>3. OrderStageInv'
    BY <1>0, <1>2, <2>1 DEF GatewayInv, GatewayTypeOK, OrderStageInv
  <2>4. /\ gw'[r] = w /\ w.pc = "deduct" /\ w.book = b /\ w.quantity = q
        /\ \A s \in GwRequests : s # r => gw'[s] = gw[s]
    BY <1>2, <2>1 DEF GatewayInv, GatewayTypeOK
  <2>5. /\ \A k \in Shelf : Deducted(k)' = Deducted(k) /\ r \notin Deducted(k)
        /\ \A k \in Shelf : Ordering(k)' = IF k = b THEN Ordering(k) \cup {r} ELSE Ordering(k)
        /\ \A k \in Shelf : r \notin Ordering(k)
    BY <1>0, <2>4 DEF Deducted, Ordering
  <2>6. \A k \in Shelf : Copies(k)' = Copies(k) /\ Sold(k)' = Sold(k)
    <3>1. \A k \in Shelf : \A s \in Deducted(k) : gw'[s].quantity = gw[s].quantity
      BY <2>4, <2>5 DEF Deducted
    <3> QED BY <2>5, <3>1, SoldTheSame
  <2>7. SoldInv'
    BY <1>0, <2>6 DEF GatewayInv, SoldInv
  <2>8. AloneInv'
    <3> SUFFICES ASSUME NEW k \in Shelf, k \notin overlapped', books'[k] # NoBook
                 PROVE  /\ books'[k] = Stock - Sold(k)'
                        /\ \A s \in Ordering(k)' : gw'[s].quantity <= books'[k] /\ \A t \in Ordering(k)' : s = t
      BY DEF AloneInv
    <3>1. k \notin overlapped /\ (k = b => Ordering(b) = {})
      BY <1>2
    <3>2. /\ books[k] = Stock - Sold(k)
          /\ \A s \in Ordering(k) : gw[s].quantity <= books[k] /\ \A t \in Ordering(k) : s = t
      BY <1>0, <3>1 DEF GatewayInv, AloneInv
    <3>3. \A s \in Ordering(k) : gw'[s] = gw[s]
      BY <2>4, <2>5 DEF Ordering
    <3>4. CASE k = b
      BY <1>0, <2>1, <2>4, <2>5, <2>6, <3>1, <3>2, <3>4
    <3>5. CASE k # b
      BY <1>0, <2>5, <2>6, <3>2, <3>3, <3>5
    <3> QED BY <3>4, <3>5
  <2>9. BookCacheInv'
    <3>1. \A s \in GwRequests : gw[s].pc \in {"insert", "invalidate"} => gw'[s] = gw[s]
      BY <1>0, <2>4
    <3> QED BY <1>0, <3>1 DEF GatewayInv, BookCacheInv, GatewayCacheFresh
  <2> QED BY <2>2, <2>3, <2>7, <2>8, <2>9 DEF GatewayInv
<1> QED BY <1>1, <1>2 DEF CheckStock, w

LEMMA DeductKeeps ==
    ASSUME GatewayInv, NEW r \in GwRequests, Deduct(r)
    PROVE  GatewayInv'
<1>a. /\ gw[r].pc = "deduct" /\ UNCHANGED <<orders, bookCache, bookList, overlapped>>
      /\ gw[r].book \in Shelf /\ books[gw[r].book] # NoBook /\ gw[r].book # NoBook
  <2>1. gw[r].pc = "deduct" /\ UNCHANGED <<orders, bookCache, bookList, overlapped>>
    BY DEF Deduct
  <2> QED BY <2>1, GatewayAssumption DEF GatewayInv, GatewayTypeOK, OrderStageInv
<1>b. gw[r].quantity \in Word /\ books[gw[r].book] \in Word
  BY <1>a DEF GatewayInv, GatewayTypeOK
<1>c. PICK b \in Shelf, q \in Word : b = gw[r].book /\ q = gw[r].quantity
  BY <1>a, <1>b
<1>0. /\ gw[r].pc = "deduct" /\ UNCHANGED <<orders, bookCache, bookList, overlapped>>
      /\ b \in Shelf /\ b # NoBook /\ books[b] # NoBook /\ q \in Nat /\ books[b] \in Nat
      /\ b = gw[r].book /\ q = gw[r].quantity
      /\ WordSize \in Nat \ {0} /\ Stock \in Nat
  BY <1>a, <1>b, <1>c, GatewayAssumption DEF Word
<1>1. CASE books[b] < q /\ GwGo(r, "panic") /\ UNCHANGED books
  <2>1. gw' = [gw EXCEPT ![r].pc = "panic"] /\ UNCHANGED books /\ q > books[b]
    BY <1>0, <1>1 DEF GwGo
  <2>2. GatewayTypeOK'
    BY <1>0, <2>1 DEF GatewayInv, GatewayTypeOK, GwStages
  <2>3. OrderStageInv'
    BY <1>0, <2>1 DEF GatewayInv, GatewayTypeOK, OrderStageInv
  <2>4. \A s \in GwRequests : gw'[s].quantity = gw[s].quantity
    BY <2>1 DEF GatewayInv, GatewayTypeOK
  <2>5. \A k \in Shelf : Deducted(k)' = Deducted(k) /\ Ordering(k)' = Ordering(k) \ {r}
    BY <1>0, <2>1 DEF GatewayInv, GatewayTypeOK, Deducted, Ordering
  <2>6. \A k \in Shelf : Copies(k)' = Copies(k) /\ Sold(k)' = Sold(k)
    BY <2>4, <2>5, SoldTheSame DEF Deducted
  <2>7. SoldInv'
    BY <2>1, <2>6 DEF GatewayInv, SoldInv
  <2>8. AloneInv'
    <3>1. \A k \in Shelf : \A s \in Ordering(k)' : s \in Ordering(k) /\ gw'[s].quantity = gw[s].quantity
      BY <2>4, <2>5 DEF Ordering
    <3> QED BY <1>0, <2>1, <2>6, <3>1 DEF GatewayInv, AloneInv
  <2>9. BookCacheInv'
    BY <1>0, <2>1 DEF GatewayInv, GatewayTypeOK, BookCacheInv, GatewayCacheFresh
  <2> QED BY <2>2, <2>3, <2>7, <2>8, <2>9 DEF GatewayInv
<1>2. CASE books' = [books EXCEPT ![b] = Left(r)] /\ GwGo(r, "insert")
  <2>1. gw' = [gw EXCEPT ![r].pc = "insert"] /\ books' = [books EXCEPT ![b] = Left(r)]
    BY <1>2 DEF GwGo
  <2>2. Left(r) = (books[b] - q) % WordSize /\ Left(r) \in Word /\ Left(r) # NoBook
    <3>1. Left(r) = (books[b] - q) % WordSize
      BY <1>0 DEF Left
    <3>2. books[b] - q \in Int
      BY <1>0
    <3>3. Left(r) \in Word
      BY <1>0, <3>1, <3>2, Remainder DEF Word
    <3> QED BY <1>0, <3>1, <3>3 DEF Word, NoBook
  <2>3. /\ books'[b] = Left(r) /\ \A k \in Shelf : k # b => books'[k] = books[k]
        /\ \A k \in Shelf : books[k] # NoBook => books'[k] # NoBook
    BY <1>0, <2>1, <2>2 DEF GatewayInv, GatewayTypeOK
  <2>4. GatewayTypeOK'
    BY <1>0, <2>1, <2>2 DEF GatewayInv, GatewayTypeOK, GwStages
  <2>5. OrderStageInv'
    <3>1. \A s \in GwRequests : gw'[s].book = gw[s].book /\ gw'[s].wanted = gw[s].wanted
                 /\ gw[s].book \in Shelf \cup {NoBook}
                 /\ gw'[s].pc = IF s = r THEN "insert" ELSE gw[s].pc
      BY <2>1 DEF GatewayInv, GatewayTypeOK
    <3> QED BY <1>0, <2>3, <3>1 DEF GatewayInv, OrderStageInv
  <2>6. \A s \in GwRequests : gw'[s].quantity = gw[s].quantity
    BY <2>1 DEF GatewayInv, GatewayTypeOK
  <2>7. /\ r \notin Deducted(b) /\ r \in Ordering(b)
        /\ \A k \in Shelf : k # b => Deducted(k)' = Deducted(k) /\ Ordering(k)' = Ordering(k)
        /\ Deducted(b)' = Deducted(b) \cup {r} /\ Ordering(b)' = Ordering(b) \ {r}
    BY <1>0, <2>1 DEF GatewayInv, GatewayTypeOK, Deducted, Ordering
  <2>8. \A k \in Shelf : k # b => Copies(k)' = Copies(k) /\ Sold(k)' = Sold(k)
    BY <2>6, <2>7, SoldTheSame DEF Deducted
  <2>9. Sold(b) \in Nat /\ Sold(b)' = Sold(b) + q /\ IsFiniteSet(Copies(b)')
    <3>1. GatewayTypeOK /\ IsFiniteSet(Copies(b))
      BY <1>0 DEF GatewayInv, SoldInv
    <3> QED BY <1>0, <2>6, <2>7, <3>1, SoldMore
  <2>10. books'[b] = (Stock - Sold(b)') % WordSize
    <3>1. books[b] = (Stock - Sold(b)) % WordSize
      BY <1>0 DEF GatewayInv, SoldInv
    <3>2. Stock - Sold(b) \in Int /\ (Stock - Sold(b)) - q = Stock - (Sold(b) + q)
      BY <1>0, <2>9
    <3>3. (((Stock - Sold(b)) % WordSize) - q) % WordSize = ((Stock - Sold(b)) - q) % WordSize
      <4> DEFINE a == Stock - Sold(b)
      <4>1. a \in Int /\ q \in Int
        BY <1>0, <3>2
      <4> HIDE DEF a
      <4>2. ((a % WordSize) - q) % WordSize = (a - q) % WordSize
        BY <1>0, <4>1, RemainderOfDifference
      <4> QED BY <4>2 DEF a
    <3> QED BY <2>2, <2>3, <2>9, <3>1, <3>2, <3>3
  <2>11. SoldInv'
    BY <2>3, <2>8, <2>9, <2>10 DEF GatewayInv, SoldInv
  <2>12. AloneInv'
    <3> SUFFICES ASSUME NEW k \in Shelf, k \notin overlapped', books'[k] # NoBook
                 PROVE  /\ books'[k] = Stock - Sold(k)'
                        /\ \A s \in Ordering(k)' : gw'[s].quantity <= books'[k] /\ \A t \in Ordering(k)' : s = t
      BY DEF AloneInv
    <3>1. CASE k # b
      BY <1>0, <2>3, <2>6, <2>7, <2>8, <3>1 DEF GatewayInv, AloneInv, Ordering
    <3>2. CASE k = b
      <4>1. books[b] = Stock - Sold(b) /\ q <= books[b] /\ \A s \in Ordering(b) : s = r
        BY <1>0, <2>7, <3>2 DEF GatewayInv, AloneInv
      <4>2. Ordering(b)' = {}
        BY <2>7, <4>1
      <4>3. books[b] - q \in 0 .. (WordSize - 1)
        <5>1. books[b] < WordSize
          BY <1>0 DEF GatewayInv, GatewayTypeOK, Word
        <5> QED BY <1>0, <4>1, <5>1
      <4>4. (books[b] - q) % WordSize = books[b] - q
        BY <1>0, <4>3
      <4> QED BY <1>0, <2>2, <2>3, <2>9, <3>2, <4>1, <4>2, <4>4
    <3> QED BY <3>1, <3>2
  <2>13. BookCacheInv'
    <3>1. gw'[r].pc = "insert" /\ \A s \in GwRequests : gw'[s].book = gw[s].book
              /\ (gw[s].pc \in {"insert", "invalidate"} => gw'[s].pc = gw[s].pc)
      BY <1>0, <2>1 DEF GatewayInv, GatewayTypeOK
    <3> QED BY <1>0, <2>3, <3>1 DEF GatewayInv, BookCacheInv, GatewayCacheFresh
  <2> QED BY <2>4, <2>5, <2>11, <2>12, <2>13 DEF GatewayInv
<1> QED BY <1>0, <1>1, <1>2 DEF Deduct

LEMMA ExpireCachedKeeps ==
    ASSUME GatewayInv, ExpireCached PROVE GatewayInv'
<1>0. UNCHANGED <<books, orders, gw, overlapped>>
  BY DEF ExpireCached
<1>1. GatewayTypeOK'
  BY <1>0 DEF GatewayInv, GatewayTypeOK, ExpireCached
<1>2. OrderStageInv'
  BY <1>0 DEF GatewayInv, OrderStageInv
<1>3. SoldInv' /\ AloneInv'
  BY <1>0, <1>1, QuietStep DEF Deducted, Ordering
<1>4. BookCacheInv'
  <2>1. \A b \in Shelf : bookCache'[b] \in {bookCache[b], NoBook}
    BY DEF ExpireCached, GatewayInv, GatewayTypeOK
  <2> QED BY <1>0, <2>1 DEF GatewayInv, BookCacheInv, GatewayCacheFresh
<1> QED BY <1>1, <1>2, <1>3, <1>4 DEF GatewayInv

LEMMA GatewayInvInit == GatewayInit => GatewayInv
<1> SUFFICES ASSUME GatewayInit PROVE GatewayInv
  OBVIOUS
<1> USE DEF GatewayInit
<1>0. \A r \in GwRequests : gw[r] = GwIdle
  OBVIOUS
<1>1. GatewayTypeOK
  <2>1. 0 \in Word /\ Stock \in Word
    BY GatewayAssumption DEF Word
  <2> QED BY <2>1 DEF GatewayTypeOK, GwIdle, GwStages
<1>2. OrderStageInv
  BY <1>0 DEF OrderStageInv, GwIdle
<1>3. ASSUME NEW b \in Shelf PROVE Ordering(b) = {} /\ Copies(b) = {} /\ Sold(b) = 0
  <2>1. Deducted(b) = {} /\ Ordering(b) = {}
    BY <1>0 DEF Deducted, Ordering, GwIdle
  <2>2. Copies(b) = {}
    BY <2>1 DEF Copies
  <2> QED BY <2>1, <2>2, FS_EmptySet DEF Sold
<1>4. Stock \in Nat /\ (Stock - 0) % WordSize = Stock /\ Stock - 0 = Stock
  BY GatewayAssumption
<1>5. SoldInv
  BY <1>3, <1>4, FS_EmptySet DEF SoldInv
<1>6. AloneInv
  BY <1>3, <1>4 DEF AloneInv
<1>7. BookCacheInv
  BY DEF BookCacheInv, GatewayCacheFresh
<1> QED BY <1>1, <1>2, <1>5, <1>6, <1>7 DEF GatewayInv

LEMMA GatewayInvStep == GatewayInv /\ [GatewayNext]_gatewayVars => GatewayInv'
<1> SUFFICES ASSUME GatewayInv, [GatewayNext]_gatewayVars PROVE GatewayInv'
  OBVIOUS
<1>1. ASSUME NEW r \in GwRequests,
             \/ Shed(r) \/ ReadBook(r) \/ ListBooks(r) \/ ClearCache(r)
             \/ Deduct(r) \/ InsertOrder(r) \/ Invalidate(r)
      PROVE  GatewayInv'
  BY <1>1, ShedKeeps, ReadBookKeeps, ListBooksKeeps, ClearCacheKeeps, DeductKeeps, InsertOrderKeeps,
     InvalidateKeeps
<1>2. ASSUME NEW r \in GwRequests, NEW b \in Shelf, GetBook(r, b) \/ CreateBook(r, b) PROVE GatewayInv'
  BY <1>2, GetBookKeeps, CreateBookKeeps
<1>3. ASSUME NEW r \in GwRequests, NEW b \in Shelf, NEW q \in Quantities, CheckStock(r, b, q)
      PROVE  GatewayInv'
  BY <1>3, CheckStockKeeps
<1>4. ASSUME NEW r \in GwRequests, NEW o \in GwRequests, CancelOrder(r, o) PROVE GatewayInv'
  BY <1>4, CancelOrderKeeps
<1>5. CASE ExpireCached
  BY <1>5, ExpireCachedKeeps
<1>6. CASE UNCHANGED gatewayVars
  <2>1. UNCHANGED <<books, orders, bookCache, gw, overlapped>>
    BY <1>6 DEF gatewayVars
  <2>2. GatewayTypeOK' /\ OrderStageInv' /\ BookCacheInv'
    BY <2>1 DEF GatewayInv, GatewayTypeOK, OrderStageInv, BookCacheInv, GatewayCacheFresh
  <2>3. SoldInv' /\ AloneInv'
    BY <2>1, <2>2, QuietStep DEF Deducted, Ordering
  <2> QED BY <2>2, <2>3 DEF GatewayInv
<1> QED BY <1>1, <1>2, <1>3, <1>4, <1>5, <1>6 DEF GatewayNext

\* However orders of any number of requests overlap, the stock is the sum that was there less
\* everything ordered, modulo the word; more is sold than there was only after an overlap; and
\* a cached book is as the stock is unless an order is about to delete it.
THEOREM StockTheorem == GatewaySpec => []StockSound
<1>1. ASSUME GatewayInv PROVE StockSound
  <2>1. StockAccounted
    BY <1>1 DEF GatewayInv, SoldInv, OrderStageInv, StockAccounted
  <2>2. ASSUME NEW b \in Shelf, Sold(b) > Stock, b \notin overlapped PROVE FALSE
    <3>1. Sold(b) \in Nat /\ Stock \in Nat
      BY <1>1, FS_CardinalityType, GatewayAssumption DEF GatewayInv, SoldInv, Sold
    <3>2. CASE books[b] # NoBook
      <4>1. books[b] = Stock - Sold(b) /\ books[b] \in Word
        BY <1>1, <2>2, <3>2 DEF GatewayInv, AloneInv, GatewayTypeOK
      <4> QED BY <2>2, <3>1, <4>1, GatewayAssumption DEF Word
    <3>3. CASE books[b] = NoBook
      <4>1. Deducted(b) = {}
        BY <1>1, <3>3, GatewayAssumption DEF GatewayInv, GatewayTypeOK, OrderStageInv, Deducted
      <4>2. Copies(b) = {}
        BY <4>1 DEF Copies
      <4>3. Sold(b) = 0
        BY <4>2, FS_EmptySet DEF Sold
      <4> QED BY <2>2, <3>1, <4>3
    <3> QED BY <3>2, <3>3
  <2> QED BY <1>1, <2>1, <2>2 DEF GatewayInv, BookCacheInv, StockSound, OversoldOnlyByOverlap
<1> QED BY <1>1, GatewayInvInit, GatewayInvStep, PTL DEF GatewaySpec
=============================================================================
