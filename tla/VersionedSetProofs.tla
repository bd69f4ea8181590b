------------------------- MODULE VersionedSetProofs -------------------------
(***************************************************************************)
(* What the version log guarantees its readers: a row tells whether its    *)
(* element is in the set, and a change raises one row above the old head.  *)
(***************************************************************************)
EXTENDS VersionedSet, TLAPS

\* incrVersion on a batch of one.
LEMMA IncrOne ==
  ASSUME NEW l \in Logs(Elem), NEW e \in Elem, NEW st \in States
  PROVE  IncrVersion(l, <<e>>, st) =
           [ver |-> l.ver + 1,
            row |-> [l.row EXCEPT ![e] = [state |-> st, ver |-> l.ver + 1]]]
<1>1. DOMAIN <<e>> = {1} /\ <<e>>[1] = e /\ Len(<<e>>) = 1
  OBVIOUS
<1>2. (CHOOSE i \in DOMAIN <<e>> : <<e>>[i] = e) = 1
  BY <1>1
<1>3. DOMAIN l.row = Elem
  BY DEF Logs
<1>4. ASSUME NEW f \in Elem
      PROVE  (\E i \in DOMAIN <<e>> : <<e>>[i] = f) <=> f = e
  BY <1>1
<1>5. ASSUME NEW f \in Elem, \E i \in DOMAIN <<e>> : <<e>>[i] = f
      PROVE  (CHOOSE i \in DOMAIN <<e>> : <<e>>[i] = f) = 1
  BY <1>1, <1>4, <1>5, <1>2
<1>6. [f \in DOMAIN l.row |->
          IF \E i \in DOMAIN <<e>> : <<e>>[i] = f
          THEN [state |-> st, ver |-> l.ver + (CHOOSE i \in DOMAIN <<e>> : <<e>>[i] = f)]
          ELSE l.row[f]]
      = [l.row EXCEPT ![e] = [state |-> st, ver |-> l.ver + 1]]
  <2>1. l.row = [f \in Elem |-> l.row[f]]
    BY DEF Logs
  <2> QED
    BY <1>3, <1>4, <1>5, <2>1
<1> QED
  BY <1>1, <1>6 DEF IncrVersion

\* A change of membership raises the row of one element above the old head and
\* leaves every other element, and its row, alone.
Changed(e) ==
  /\ log' = [ver |-> log.ver + 1,
             row |-> [log.row EXCEPT ![e] = [state |-> log'.row[e].state, ver |-> log.ver + 1]]]
  /\ \A f \in Elem \ {e} : f \in set' <=> f \in set

LEMMA ChangeOfOne ==
  ASSUME TypeOK, LogTellsSet, NEW e \in Elem,
         Insert(e) \/ Renew(e) \/ Delete(e) \/ Update(e)
  PROVE  TypeOK' /\ LogTellsSet' /\ Changed(e)
<1> DEFINE After(st) == [ver |-> log.ver + 1,
                         row |-> [log.row EXCEPT ![e] = [state |-> st, ver |-> log.ver + 1]]]
<1>1. log \in Logs(Elem) /\ log.ver \in Nat /\ log.row \in [Elem -> [state : States, ver : Nat]]
  BY DEF TypeOK, Logs
<1>2. PICK st \in States :
        /\ log' = After(st)
        /\ set' \subseteq Elem
        /\ e \in set' <=> st # "delete"
        /\ \A f \in Elem \ {e} : f \in set' <=> f \in set
  <2>1. CASE Insert(e)
    <3>1. log' = After("insert")
      BY <2>1, <1>1, IncrOne DEF Insert, States
    <3> QED
      BY <3>1, <2>1 DEF Insert, States, TypeOK
  <2>2. CASE Renew(e)
    <3>1. log' = After("insert")
      BY <2>2, <1>1, IncrOne DEF Renew, States
    <3> QED
      BY <3>1, <2>2 DEF Renew, States, TypeOK
  <2>3. CASE Delete(e)
    <3>1. log' = After("delete")
      BY <2>3, <1>1, IncrOne DEF Delete, States
    <3> QED
      BY <3>1, <2>3 DEF Delete, States, TypeOK
  <2>4. CASE Update(e)
    <3>1. log' = After("update")
      BY <2>4, <1>1, IncrOne DEF Update, States
    <3> QED
      BY <3>1, <2>4 DEF Update, States, TypeOK
  <2> QED
    BY <2>1, <2>2, <2>3, <2>4
<1>3. /\ log'.ver = log.ver + 1
      /\ log'.row = [log.row EXCEPT ![e] = [state |-> st, ver |-> log.ver + 1]]
  BY <1>2
<1>4. log' \in Logs(Elem)
  BY <1>1, <1>2 DEF Logs
<1>5. TypeOK'
  BY <1>2, <1>4 DEF TypeOK
<1>6. LogTellsSet'
  <2> SUFFICES ASSUME NEW f \in Elem
               PROVE  /\ f \in set' <=> log'.row[f].state # "delete"
                      /\ log'.row[f].ver <= log'.ver
    BY DEF LogTellsSet
  <2>1. CASE f = e
    BY <2>1, <1>1, <1>2, <1>3
  <2>2. CASE f # e
    <3>1. log'.row[f] = log.row[f] /\ log.row[f].ver \in Nat
      BY <2>2, <1>1, <1>3
    <3> QED
      BY <3>1, <2>2, <1>1, <1>2, <1>3 DEF LogTellsSet
  <2> QED
    BY <2>1, <2>2
<1>7. Changed(e)
  BY <1>1, <1>2, <1>3 DEF Changed
<1> QED
  BY <1>5, <1>6, <1>7

\* What every service that implements VersionedSet gives its readers.
THEOREM SetLogTellsSet == Spec => []LogTellsSet
<1> DEFINE I == TypeOK /\ LogTellsSet
<1>1. Init => I
  BY DEF Init, TypeOK, LogTellsSet, EmptyLog, Logs, NoRow, States
<1>2. I /\ [Next]_svars => I'
  <2> SUFFICES ASSUME I, [Next]_svars PROVE I'
    OBVIOUS
  <2>1. CASE Next
    BY <2>1, ChangeOfOne DEF Next
  <2>2. CASE UNCHANGED svars
    BY <2>2 DEF svars, TypeOK, LogTellsSet
  <2> QED
    BY <2>1, <2>2
<1>3. I => LogTellsSet
  OBVIOUS
<1> QED
  BY <1>1, <1>2, <1>3, PTL DEF Spec
=============================================================================
