---------------------------- MODULE DocSyncProofs ----------------------------
(***************************************************************************)
(* DocSync for any number of connections, documents, changes and tokens.   *)
(*                                                                         *)
(* The inductive invariant says what a handler may rely on between its     *)
(* awaits: the document's lock keeps the row it read current and any       *)
(* tombstone from appearing (LocksOK, ReadsOK), and a token that left the  *)
(* server can never come to name another edition (TokensOK).               *)
(***************************************************************************)
EXTENDS DocSync, TLAPS

CriticalPcs == {"read", "tomb", "store", "delete"}
LockingPcs == {"lock"} \cup CriticalPcs

\* A handler is inside its document's lock exactly while it works on it.
LocksOK ==
    /\ \A c \in Conns : c \in hold <=> pc[c] \in CriticalPcs
    /\ \A c \in Conns : want[c] = IF pc[c] \in LockingPcs THEN req[c].doc ELSE NoDoc
    /\ \A c \in Conns : pc[c] \in {"start"} \cup LockingPcs => req[c].doc \in Docs
    /\ Locks!MutualExclusion

\* What a handler read is still so when it stores: the row is the one it
\* saw, a tombstone is one it knows of, and only a replacement passes one.
ReadsOK ==
    \A c \in Conns :
        /\ pc[c] \in {"tomb", "store"} => seen[c] = documents[req[c].doc]
        /\ pc[c] = "store" /\ ~Exists(seen[c]) =>
              /\ Tombstoned(req[c].doc) => tombed[c]
              /\ tombed[c] => Replaces(c)

\* If g's token is the token of its document's row, the row is g's edition.
Names(g) ==
    /\ g.token # 0 /\ g.token < nextIncarnation
    /\ documents[g.doc].incarnation = g.token => edition[g.doc] = g.edition

Meant(c) == [doc |-> req[c].doc, token |-> req[c].expected, edition |-> req[c].about]

TokensOK ==
    /\ \A d \in Docs : documents[d].incarnation < nextIncarnation
    /\ \A g \in known : Names(g)
    /\ \A c \in Conns : \A g \in out[c].grants : Names(g)
    /\ \A c \in Conns : req[c].expected \notin {NoToken, 0} =>
          req[c].doc \in Docs /\ Names(Meant(c))

IndInv == TypeOK /\ LocksOK /\ ReadsOK /\ TokensOK

-----------------------------------------------------------------------------
(* Facts about steps of one connection.                                    *)

\* A step of c leaves the other connections alone.
OthersSame(c) ==
    \A e \in Conns \ {c} :
        /\ pc'[e] = pc[e] /\ req'[e] = req[e] /\ seen'[e] = seen[e]
        /\ tombed'[e] = tombed[e] /\ out'[e] = out[e] /\ want'[e] = want[e]
        /\ (e \in hold') = (e \in hold)

\* The types of the connections' state.
ConnTypeOK ==
    /\ pc \in [Conns -> PcValues]
    /\ req \in [Conns -> Request]
    /\ seen \in [Conns -> Row]
    /\ tombed \in [Conns -> BOOLEAN]
    /\ out \in [Conns -> Response]
    /\ Locks!MutexTypeOK

LEMMA RowTypes == NoRow \in Row /\ NoTomb \in Tomb /\ NoReq \in Request /\ NoOut \in Response
BY DEF NoRow, Row, Blob, History, NoTomb, Tomb, NoReq, Request, NoOut, Response, Responses

\* A handler that returns has let go of its lock and left its reads behind.
LEMMA FinishFacts ==
    ASSUME TypeOK, LocksOK, NEW c \in Conns, NEW kind \in Responses,
           NEW grants \in SUBSET Grant, Finish(c, kind, grants)
    PROVE  /\ ConnTypeOK' /\ OthersSame(c)
           /\ pc'[c] = "reply" /\ req'[c] = req[c] /\ out'[c].grants = grants
           /\ out'[c].kind = kind
           /\ want'[c] = NoDoc /\ c \notin hold'
<1>1. /\ pc' = [pc EXCEPT ![c] = "reply"]
      /\ out' = [out EXCEPT ![c] = [kind |-> kind, grants |-> grants]]
      /\ seen' = [seen EXCEPT ![c] = NoRow]
      /\ tombed' = [tombed EXCEPT ![c] = FALSE]
      /\ req' = req
  BY DEF Finish
<1>2. want' = [want EXCEPT ![c] = NoDoc] /\ hold' = hold \ {c}
  <2>1. CASE want[c] = NoDoc
    <3>1. c \notin hold
      BY <2>1, ConstantsAssumption DEF LocksOK, LockingPcs, CriticalPcs
    <3> QED BY <2>1, <3>1 DEF Finish, lockVars, TypeOK, Locks!MutexTypeOK
  <2>2. CASE want[c] # NoDoc
    BY <2>2 DEF Finish, Locks!Release
  <2> QED BY <2>1, <2>2
<1>3. [kind |-> kind, grants |-> grants] \in Response
  BY DEF Response
<1>4. ConnTypeOK'
  BY <1>1, <1>2, <1>3, RowTypes
  DEF TypeOK, ConnTypeOK, PcValues, Locks!MutexTypeOK
<1>5. OthersSame(c)
  BY <1>1, <1>2 DEF OthersSame, TypeOK, Locks!MutexTypeOK
<1> QED BY <1>1, <1>2, <1>4, <1>5 DEF TypeOK, Locks!MutexTypeOK

\* Leaving the lock keeps the lock invariant.
LEMMA LeaveLocks ==
    ASSUME TypeOK, LocksOK, NEW c \in Conns, OthersSame(c), hold' \in SUBSET Conns,
           pc'[c] \in {"reply", "idle"}, want'[c] = NoDoc, c \notin hold'
    PROVE  LocksOK'
<1>1. \A e \in Conns : e \in hold' <=> pc'[e] \in CriticalPcs
  BY DEF LocksOK, OthersSame, CriticalPcs
<1>2. \A e \in Conns : want'[e] = IF pc'[e] \in LockingPcs THEN req'[e].doc ELSE NoDoc
  BY DEF LocksOK, OthersSame, CriticalPcs, LockingPcs
<1>3. \A e \in Conns : pc'[e] \in {"start"} \cup LockingPcs => req'[e].doc \in Docs
  BY DEF LocksOK, OthersSame, CriticalPcs, LockingPcs
<1>4. Locks!MutualExclusion'
  BY DEF LocksOK, OthersSame, Locks!MutualExclusion
<1> QED BY <1>1, <1>2, <1>3, <1>4 DEF LocksOK

\* The reads of the other handlers stay current when the step changes no
\* document they work on, and brings no tombstone to one.
LEMMA KeepReads ==
    ASSUME ReadsOK, NEW c \in Conns, OthersSame(c), pc'[c] \notin {"tomb", "store"},
           \A e \in Conns \ {c} : pc[e] \in {"tomb", "store"} =>
               /\ documents'[req[e].doc] = documents[req[e].doc]
               /\ Exists(tombstones'[req[e].doc]) => Exists(tombstones[req[e].doc])
    PROVE  ReadsOK'
BY DEF ReadsOK, OthersSame, Tombstoned, Replaces

\* How a step may move tokens: the counter never goes back, and a row keeps
\* its token and edition, disappears, or gets the token the counter had.
TokenStep ==
    /\ nextIncarnation' \in Nat /\ nextIncarnation <= nextIncarnation'
    /\ \A d \in Docs :
          /\ documents'[d].incarnation < nextIncarnation'
          /\ \/ documents'[d].incarnation = documents[d].incarnation /\ edition'[d] = edition[d]
             \/ documents'[d].incarnation = 0
             \/ documents'[d].incarnation = nextIncarnation

\* Under such a step a token keeps naming what it named.
LEMMA NamesStable ==
    ASSUME TypeOK, TokenStep, NEW g, g.doc \in Docs, g.token \in Nat, Names(g)
    PROVE  Names(g)'
BY DEF TypeOK, TokenStep, Names

LEMMA KeepTokens ==
    ASSUME TypeOK, TokensOK, TokenStep, NEW c \in Conns, OthersSame(c),
           known' \subseteq known \cup out[c].grants,
           \A g \in out'[c].grants : Names(g)',
           \/ req'[c] = req[c]
           \/ req'[c].expected \in {NoToken, 0}
           \/ \E g \in known : req'[c].doc = g.doc /\ req'[c].expected = g.token /\ req'[c].about = g.edition
    PROVE  TokensOK'
<1>1. \A g \in Grant : Names(g) => Names(g)'
  BY NamesStable DEF Grant
<1>2. \A d \in Docs : documents'[d].incarnation < nextIncarnation'
  BY DEF TokenStep
<1>3. \A e \in Conns : out[e].grants \subseteq Grant
  BY DEF TypeOK, Response
<1>4. \A g \in known' : Names(g)'
  BY <1>1, <1>3 DEF TokensOK, TypeOK
<1>5. \A e \in Conns : \A g \in out'[e].grants : Names(g)'
  BY <1>1, <1>3 DEF TokensOK, OthersSame
<1>6. ASSUME NEW e \in Conns, req'[e] = req[e], req[e].expected \notin {NoToken, 0}
      PROVE  req'[e].doc \in Docs /\ Names(Meant(e))'
  <2>1. req[e].doc \in Docs /\ Names(Meant(e)) /\ Meant(e) \in Grant
    BY <1>6 DEF TokensOK, Meant, Grant, TypeOK, Request
  <2>2. PICK m \in Grant : m = Meant(e)
    BY <2>1
  <2>3. Names(m)'
    BY <1>1, <2>1, <2>2
  <2>4. req'[e].doc = m.doc /\ req'[e].expected = m.token /\ req'[e].about = m.edition
    BY <1>6, <2>2 DEF Meant
  <2> QED BY <2>3, <2>4 DEF Meant, Names, Grant
<1>7. \A e \in Conns : req'[e].expected \notin {NoToken, 0} => req'[e].doc \in Docs /\ Names(Meant(e))'
  <2> SUFFICES ASSUME NEW e \in Conns, req'[e].expected \notin {NoToken, 0}
               PROVE  req'[e].doc \in Docs /\ Names(Meant(e))'
    OBVIOUS
  <2>1. CASE req'[e] = req[e]
    BY <2>1, <1>6
  <2>2. CASE req'[e] # req[e]
    <3>1. e = c
      BY <2>2 DEF OthersSame
    <3>2. PICK g \in known : req'[c].doc = g.doc /\ req'[c].expected = g.token /\ req'[c].about = g.edition
      BY <2>2, <3>1
    <3>3. g \in Grant /\ Names(g)'
      BY <1>1 DEF TokensOK, TypeOK
    <3> QED BY <3>1, <3>2, <3>3 DEF Meant, Names, Grant
  <2> QED BY <2>1, <2>2
<1> QED BY <1>2, <1>4, <1>5, <1>7 DEF TokensOK

-----------------------------------------------------------------------------
(* The invariant holds initially and every action preserves it.            *)

LEMMA InitIndInv == Init => IndInv
<1> SUFFICES ASSUME Init PROVE IndInv
  OBVIOUS
<1>1. \A d \in Docs : documents[d] \in Row /\ documents[d].incarnation \in {0, 1}
  <2>1. \A r \in {NoRow} \cup LegacyRows : r \in Row
    BY RowTypes, LegacyAssumption
  <2>2. \A r \in {NoRow} \cup LegacyRows : r.incarnation \in {0, 1}
    BY LegacyAssumption DEF NoRow
  <2> QED BY <2>1, <2>2 DEF Init
<1>2. \A d \in Docs : tombstones[d] \in Tomb
  <2>1. \A r \in {NoTomb} \cup LegacyTombs : r \in Tomb
    BY RowTypes, LegacyAssumption
  <2> QED BY <2>1 DEF Init
<1>3. \A d \in Docs : documents[d].incarnation < nextIncarnation
  BY <1>1 DEF Init, Live, Exists
<1>4. nextIncarnation \in 1..MaxIncarnation
  BY ConstantsAssumption DEF Init
<1>5. NoListing \in Listing
  BY DEF NoListing, Listing
<1>6. TypeOK
  BY <1>1, <1>2, <1>4, <1>5, RowTypes
  DEF Init, TypeOK, PcValues, Locks!MutexInit, Locks!MutexTypeOK
<1>7. LocksOK
  BY DEF Init, LocksOK, LockingPcs, CriticalPcs, Locks!MutexInit, Locks!MutualExclusion
<1>8. ReadsOK
  BY DEF Init, ReadsOK
<1>9. TokensOK
  BY <1>3 DEF Init, TokensOK, NoOut, NoReq
<1> QED BY <1>6, <1>7, <1>8, <1>9 DEF IndInv

\* A handler that answers without touching the database.
LEMMA QuietFinish ==
    ASSUME IndInv, NEW c \in Conns, NEW kind \in Responses, NEW grants \in SUBSET Grant,
           Finish(c, kind, grants), UNCHANGED <<dbVars, edition, known>>,
           listing' \in [Conns -> Listing], \A g \in grants : Names(g)
    PROVE  IndInv'
<1>1. TypeOK /\ LocksOK /\ ReadsOK /\ TokensOK
  BY DEF IndInv
<1>2. /\ ConnTypeOK' /\ OthersSame(c)
      /\ pc'[c] = "reply" /\ req'[c] = req[c] /\ out'[c].grants = grants
      /\ want'[c] = NoDoc /\ c \notin hold'
  BY <1>1, FinishFacts
<1>3. TypeOK'
  BY <1>1, <1>2 DEF TypeOK, ConnTypeOK, dbVars
<1>4. LocksOK'
  BY <1>1, <1>2, LeaveLocks DEF ConnTypeOK, Locks!MutexTypeOK
<1>5. ReadsOK'
  BY <1>1, <1>2, KeepReads DEF dbVars
<1>6. TokenStep
  BY <1>1 DEF TokenStep, TokensOK, TypeOK, dbVars
<1>7. \A g \in out'[c].grants : Names(g)'
  BY <1>2 DEF Names, dbVars
<1>8. TokensOK'
  BY <1>1, <1>2, <1>6, <1>7, KeepTokens
<1> QED BY <1>3, <1>4, <1>5, <1>8 DEF IndInv

\* A request for a document asks for its lock.
LEMMA ReceiveIndInv ==
    ASSUME IndInv, NEW c \in Conns, NEW r \in Request, r.doc \in Docs, Receive(c, r),
           \/ r.expected \in {NoToken, 0}
           \/ \E g \in known : r.doc = g.doc /\ r.expected = g.token /\ r.about = g.edition
    PROVE  IndInv'
<1>1. TypeOK /\ LocksOK /\ ReadsOK /\ TokensOK
  BY DEF IndInv
<1>2. /\ pc[c] = "idle" /\ req' = [req EXCEPT ![c] = r] /\ pc' = [pc EXCEPT ![c] = "lock"]
      /\ want' = [want EXCEPT ![c] = r.doc] /\ hold' = hold
      /\ UNCHANGED <<dbVars, seen, tombed, out, edition, known, listing>>
  BY DEF Receive, Locks!Request
<1>3. c \notin hold
  BY <1>1, <1>2 DEF LocksOK, CriticalPcs
<1>4. OthersSame(c)
  BY <1>1, <1>2 DEF OthersSame, TypeOK, Locks!MutexTypeOK
<1>5. TypeOK'
  BY <1>1, <1>2 DEF TypeOK, Locks!MutexTypeOK, PcValues, dbVars
<1>6. LocksOK'
  <2>1. \A e \in Conns : e \in hold' <=> pc'[e] \in CriticalPcs
    BY <1>1, <1>2, <1>3 DEF LocksOK, CriticalPcs, TypeOK
  <2>2. \A e \in Conns : want'[e] = IF pc'[e] \in LockingPcs THEN req'[e].doc ELSE NoDoc
    BY <1>1, <1>2 DEF LocksOK, LockingPcs, CriticalPcs, TypeOK, Locks!MutexTypeOK
  <2>3. \A e \in Conns : pc'[e] \in {"start"} \cup LockingPcs => req'[e].doc \in Docs
    BY <1>1, <1>2 DEF LocksOK, LockingPcs, CriticalPcs, TypeOK
  <2>4. Locks!MutualExclusion'
    BY <1>1, <1>2, <1>3 DEF LocksOK, Locks!MutualExclusion, TypeOK, Locks!MutexTypeOK
  <2> QED BY <2>1, <2>2, <2>3, <2>4 DEF LocksOK
<1>7. ReadsOK'
  BY <1>1, <1>2, <1>4, KeepReads DEF dbVars, TypeOK
<1>8. TokenStep
  BY <1>1, <1>2 DEF TokenStep, TokensOK, TypeOK, dbVars
<1>9. \A g \in out'[c].grants : Names(g)'
  BY <1>1, <1>2 DEF Names, dbVars, TokensOK
<1>10. req'[c] = r
  BY <1>1, <1>2 DEF TypeOK
<1>11. TokensOK'
  BY <1>1, <1>2, <1>4, <1>8, <1>9, <1>10, KeepTokens
<1> QED BY <1>5, <1>6, <1>7, <1>11 DEF IndInv

\* The lock is free of others, so the handler may enter.
LEMMA LockIndInv ==
    ASSUME IndInv, NEW c \in Conns, Lock(c)
    PROVE  IndInv'
<1>1. TypeOK /\ LocksOK /\ ReadsOK /\ TokensOK
  BY DEF IndInv
<1>2. PICK p \in {"read", "delete"} : pc' = [pc EXCEPT ![c] = p]
  BY DEF Lock
<1>3. /\ pc[c] = "lock" /\ hold' = hold \cup {c} /\ \A u \in hold : want[u] # want[c]
      /\ UNCHANGED <<dbVars, want, req, seen, tombed, out, edition, known, listing>>
  BY DEF Lock, Locks!Acquire
<1>4. OthersSame(c)
  BY <1>1, <1>2, <1>3 DEF OthersSame, TypeOK
<1>5. TypeOK'
  BY <1>1, <1>2, <1>3 DEF TypeOK, Locks!MutexTypeOK, PcValues, dbVars
<1>6. LocksOK'
  <2>1. \A e \in Conns : e \in hold' <=> pc'[e] \in CriticalPcs
    BY <1>1, <1>2, <1>3 DEF LocksOK, CriticalPcs, TypeOK
  <2>2. \A e \in Conns : want'[e] = IF pc'[e] \in LockingPcs THEN req'[e].doc ELSE NoDoc
    BY <1>1, <1>2, <1>3 DEF LocksOK, LockingPcs, CriticalPcs, TypeOK
  <2>3. \A e \in Conns : pc'[e] \in {"start"} \cup LockingPcs => req'[e].doc \in Docs
    BY <1>1, <1>2, <1>3 DEF LocksOK, LockingPcs, CriticalPcs, TypeOK
  <2>4. Locks!MutualExclusion'
    BY <1>1, <1>3 DEF LocksOK, Locks!MutualExclusion
  <2> QED BY <2>1, <2>2, <2>3, <2>4 DEF LocksOK
<1>7. ReadsOK'
  BY <1>1, <1>2, <1>3, <1>4, KeepReads DEF dbVars, TypeOK
<1>8. TokenStep
  BY <1>1, <1>3 DEF TokenStep, TokensOK, TypeOK, dbVars
<1>9. \A g \in out'[c].grants : Names(g)'
  BY <1>1, <1>3 DEF Names, dbVars, TokensOK
<1>10. TokensOK'
  BY <1>1, <1>3, <1>4, <1>8, <1>9, KeepTokens
<1> QED BY <1>5, <1>6, <1>7, <1>10 DEF IndInv

\* A handler moves on inside its critical section, or outside any lock,
\* without touching database or lock.
LEMMA AdvanceKeeps ==
    ASSUME IndInv, NEW c \in Conns, NEW p \in PcValues, pc' = [pc EXCEPT ![c] = p],
           (pc[c] \in CriticalPcs) = (p \in CriticalPcs),
           (pc[c] \in LockingPcs) = (p \in LockingPcs),
           p = "start" => pc[c] = "start",
           UNCHANGED <<dbVars, lockVars, req, edition, known>>,
           seen' \in [Conns -> Row], tombed' \in [Conns -> BOOLEAN], out' \in [Conns -> Response],
           listing' \in [Conns -> Listing], OthersSame(c), \A g \in out'[c].grants : Names(g)
    PROVE  TypeOK' /\ LocksOK' /\ TokensOK'
<1>1. TypeOK /\ LocksOK /\ TokensOK
  BY DEF IndInv
<1>2. TypeOK'
  BY <1>1 DEF TypeOK, Locks!MutexTypeOK, dbVars, lockVars
<1>3. LocksOK'
  <2>1. \A e \in Conns : e \in hold' <=> pc'[e] \in CriticalPcs
    BY <1>1 DEF LocksOK, lockVars, TypeOK
  <2>2. \A e \in Conns : want'[e] = IF pc'[e] \in LockingPcs THEN req'[e].doc ELSE NoDoc
    BY <1>1 DEF LocksOK, lockVars, TypeOK
  <2>3. \A e \in Conns : pc'[e] \in {"start"} \cup LockingPcs => req'[e].doc \in Docs
    BY <1>1 DEF LocksOK, lockVars, TypeOK
  <2>4. Locks!MutualExclusion'
    BY <1>1 DEF LocksOK, Locks!MutualExclusion, lockVars
  <2> QED BY <2>1, <2>2, <2>3, <2>4 DEF LocksOK
<1>4. TokenStep
  BY <1>1 DEF TokenStep, TokensOK, TypeOK, dbVars
<1>5. \A g \in out'[c].grants : Names(g)'
  BY DEF Names, dbVars
<1>6. TokensOK'
  BY <1>1, <1>4, <1>5, KeepTokens
<1> QED BY <1>2, <1>3, <1>6

\* What the two handlers read, they keep.
LEMMA ReadIndInv ==
    ASSUME IndInv, NEW c \in Conns, ReadExisting(c)
    PROVE  IndInv'
<1>1. TypeOK /\ LocksOK /\ ReadsOK /\ TokensOK
  BY DEF IndInv
<1>2. /\ pc[c] = "read" /\ seen' = [seen EXCEPT ![c] = documents[req[c].doc]]
      /\ UNCHANGED <<dbVars, req, tombed, out, lockVars, edition, known, listing>>
  BY DEF ReadExisting
<1>3. PICK p \in {"tomb", "store"} :
          pc' = [pc EXCEPT ![c] = p] /\ (p = "store" => Live(req[c].doc))
  BY DEF ReadExisting
<1>4. req[c].doc \in Docs
  BY <1>1, <1>2 DEF LocksOK, LockingPcs, CriticalPcs
<1>5. OthersSame(c)
  BY <1>1, <1>2, <1>3 DEF OthersSame, TypeOK, lockVars
<1>6. TypeOK' /\ LocksOK' /\ TokensOK'
  <2>1. p \in PcValues /\ (pc[c] \in CriticalPcs) = (p \in CriticalPcs)
        /\ (pc[c] \in LockingPcs) = (p \in LockingPcs) /\ p # "start"
    BY <1>2, <1>3 DEF CriticalPcs, LockingPcs, PcValues
  <2>2. seen' \in [Conns -> Row]
    BY <1>1, <1>2, <1>4 DEF TypeOK
  <2>3. /\ tombed' \in [Conns -> BOOLEAN] /\ out' \in [Conns -> Response]
        /\ listing' \in [Conns -> Listing] /\ \A g \in out'[c].grants : Names(g)
    BY <1>1, <1>2 DEF TypeOK, TokensOK
  <2> QED BY <1>2, <1>3, <1>5, <2>1, <2>2, <2>3, AdvanceKeeps
<1>7. ReadsOK'
  BY <1>1, <1>2, <1>3, <1>5
  DEF ReadsOK, OthersSame, TypeOK, dbVars, Live, Exists, Tombstoned, Replaces
<1> QED BY <1>6, <1>7 DEF IndInv

LEMMA CheckIndInv ==
    ASSUME IndInv, NEW c \in Conns, CheckTombstone(c)
    PROVE  IndInv'
<1>1. TypeOK /\ LocksOK /\ ReadsOK /\ TokensOK
  BY DEF IndInv
<1>2. CASE Finish(c, "doc_tombstoned", {})
  <2>1. "doc_tombstoned" \in Responses /\ {} \in SUBSET Grant
    BY DEF Responses
  <2>2. UNCHANGED <<dbVars, edition, known>> /\ listing' \in [Conns -> Listing]
    BY <1>1 DEF CheckTombstone, TypeOK
  <2> QED BY <1>2, <2>1, <2>2, QuietFinish
<1>3. CASE ~Finish(c, "doc_tombstoned", {})
  <2>1. /\ pc[c] = "tomb" /\ pc' = [pc EXCEPT ![c] = "store"]
        /\ tombed' = [tombed EXCEPT ![c] = Tombstoned(req[c].doc)]
        /\ Exists(seen[c]) \/ ~Tombstoned(req[c].doc) \/ Replaces(c)
        /\ UNCHANGED <<dbVars, req, seen, out, lockVars, edition, known, listing>>
    BY <1>3 DEF CheckTombstone
  <2>2. OthersSame(c)
    BY <1>1, <2>1 DEF OthersSame, TypeOK, lockVars
  <2>3. Tombstoned(req[c].doc) \in BOOLEAN
    BY DEF Tombstoned, Exists
  <2>4. TypeOK' /\ LocksOK' /\ TokensOK'
    <3>1. /\ (pc[c] \in CriticalPcs) = ("store" \in CriticalPcs)
          /\ (pc[c] \in LockingPcs) = ("store" \in LockingPcs) /\ "store" \in PcValues
      BY <2>1 DEF CriticalPcs, LockingPcs, PcValues
    <3>2. /\ seen' \in [Conns -> Row] /\ out' \in [Conns -> Response]
          /\ listing' \in [Conns -> Listing] /\ \A g \in out'[c].grants : Names(g)
      BY <1>1, <2>1 DEF TypeOK, TokensOK
    <3>3. tombed' \in [Conns -> BOOLEAN]
      BY <1>1, <2>1, <2>3 DEF TypeOK
    <3> QED BY <2>1, <2>2, <3>1, <3>2, <3>3, AdvanceKeeps
  <2>5. ReadsOK'
    <3>1. \A e \in Conns \ {c} :
            /\ pc'[e] \in {"tomb", "store"} => seen'[e] = documents'[req'[e].doc]
            /\ pc'[e] = "store" /\ ~Exists(seen'[e]) =>
                  /\ Exists(tombstones'[req'[e].doc]) => tombed'[e]
                  /\ tombed'[e] => Replaces(e)'
      BY <1>1, <2>1, <2>2 DEF ReadsOK, OthersSame, dbVars, Tombstoned, Replaces
    <3>2. /\ seen'[c] = documents'[req'[c].doc]
          /\ ~Exists(seen'[c]) =>
                /\ Exists(tombstones'[req'[c].doc]) => tombed'[c]
                /\ tombed'[c] => Replaces(c)'
      BY <1>1, <2>1 DEF ReadsOK, dbVars, Tombstoned, Replaces, TypeOK
    <3> QED BY <3>1, <3>2 DEF ReadsOK, Tombstoned
  <2> QED BY <2>4, <2>5 DEF IndInv
<1> QED BY <1>2, <1>3

\* Nobody else works on a document while a handler is inside its lock.
LEMMA OnlyWriter ==
    ASSUME LocksOK, NEW c \in Conns, NEW e \in Conns \ {c},
           pc[c] \in CriticalPcs, pc[e] \in CriticalPcs
    PROVE  req[e].doc # req[c].doc
BY DEF LocksOK, LockingPcs, Locks!MutualExclusion

\* Importing into a history gives a history that contains it.
LEMMA ImportGrows ==
    ASSUME NEW s \in History, NEW delta \in History
    PROVE  Import(s, delta) \in History /\ s \subseteq Import(s, delta)
BY DEF Import, History

\* The store transactions, under the lock, with what was read before.
LEMMA StoreIndInv ==
    ASSUME IndInv, NEW c \in Conns, pc[c] = "store", ~Unmergeable(c),
           NEW token \in Nat, NEW fresh \in BOOLEAN, NEW granted \in BOOLEAN,
           Store(c, token, fresh, granted),
           fresh => token = nextIncarnation /\ CanAllocate,
           ~fresh => Live(req[c].doc) /\ token = documents[req[c].doc].incarnation,
           tombstones' \in {tombstones, [tombstones EXCEPT ![req[c].doc] = NoTomb]},
           UNCHANGED <<known, listing>>
    PROVE  IndInv'
<1> DEFINE d == req[c].doc
           merged == Import(seen[c].snapshot, req[c].payload)
           nth == edition[d] + (IF fresh THEN 1 ELSE 0)
           grants == IF granted THEN {[doc |-> d, token |-> token, edition |-> nth]} ELSE {}
<1>1. TypeOK /\ LocksOK /\ ReadsOK /\ TokensOK
  BY DEF IndInv
<1>2. d \in Docs
  BY <1>1 DEF LocksOK, LockingPcs, CriticalPcs
<1>3. merged \in History
  <2>1. seen[c].snapshot \in Blob /\ req[c].payload \in Blob
    BY <1>1 DEF TypeOK, Row, Request
  <2>2. seen[c].snapshot \in History /\ req[c].payload \in History
    BY <2>1 DEF Unmergeable, Blob
  <2> QED BY <2>2, ImportGrows
<1>4. /\ documents' = [documents EXCEPT ![d] =
                          [snapshot |-> merged, vv |-> merged, incarnation |-> token]]
      /\ nextIncarnation' = nextIncarnation + (IF fresh THEN 1 ELSE 0)
      /\ edition' = [edition EXCEPT ![d] = nth]
      /\ Finish(c, "ack", grants)
  BY DEF Store
<1>5. nth \in Nat /\ grants \in SUBSET Grant /\ "ack" \in Responses
  BY <1>1, <1>2 DEF TypeOK, Grant, Responses
<1>6. /\ ConnTypeOK' /\ OthersSame(c)
      /\ pc'[c] = "reply" /\ req'[c] = req[c] /\ out'[c].grants = grants
      /\ want'[c] = NoDoc /\ c \notin hold'
  BY <1>1, <1>4, <1>5, FinishFacts
<1>7. [snapshot |-> merged, vv |-> merged, incarnation |-> token] \in Row
  BY <1>3 DEF Row, Blob
<1>8. nextIncarnation' \in 1..MaxIncarnation
  BY <1>1, <1>4, ConstantsAssumption DEF TypeOK, CanAllocate
<1>9. TypeOK'
  <2>1. documents' \in [Docs -> Row]
    BY <1>1, <1>4, <1>7 DEF TypeOK
  <2>2. tombstones' \in [Docs -> Tomb]
    BY <1>1, RowTypes DEF TypeOK
  <2>3. edition' \in [Docs -> Nat]
    BY <1>1, <1>4, <1>5 DEF TypeOK
  <2> QED BY <1>1, <1>6, <1>8, <2>1, <2>2, <2>3 DEF TypeOK, ConnTypeOK
<1>10. LocksOK'
  BY <1>1, <1>6, LeaveLocks DEF ConnTypeOK, Locks!MutexTypeOK
<1>11. ReadsOK'
  <2>1. \A e \in Conns \ {c} : pc[e] \in {"tomb", "store"} => req[e].doc # d /\ req[e].doc \in Docs
    BY <1>1, OnlyWriter DEF CriticalPcs, LockingPcs, LocksOK
  <2>2. \A e \in Conns \ {c} : pc[e] \in {"tomb", "store"} =>
            /\ documents'[req[e].doc] = documents[req[e].doc]
            /\ Exists(tombstones'[req[e].doc]) => Exists(tombstones[req[e].doc])
    BY <1>1, <1>4, <2>1 DEF TypeOK
  <2> QED BY <1>1, <1>6, <2>2, KeepReads
<1>12. TokenStep
  <2>1. documents'[d].incarnation = token /\ edition'[d] = nth
    BY <1>1, <1>2, <1>4 DEF TypeOK
  <2>2. \A f \in Docs \ {d} :
            documents'[f] = documents[f] /\ edition'[f] = edition[f]
    BY <1>1, <1>4 DEF TypeOK
  <2>3. \A f \in Docs : documents[f].incarnation \in Nat /\ edition[f] \in Nat
    BY <1>1 DEF TypeOK, Row
  <2>4. nextIncarnation \in Nat /\ nextIncarnation' \in Nat /\ nextIncarnation <= nextIncarnation'
    BY <1>1, <1>4 DEF TypeOK
  <2>5. \A f \in Docs : documents[f].incarnation < nextIncarnation
    BY <1>1 DEF TokensOK
  <2>6. CASE fresh
    BY <1>4, <2>1, <2>2, <2>3, <2>4, <2>5, <2>6 DEF TokenStep
  <2>7. CASE ~fresh
    BY <1>2, <1>4, <2>1, <2>2, <2>3, <2>4, <2>5, <2>7 DEF TokenStep
  <2> QED BY <2>6, <2>7
<1>13. \A g \in out'[c].grants : Names(g)'
  <2> SUFFICES ASSUME NEW g \in grants PROVE Names(g)'
    BY <1>6
  <2>1. g.doc = d /\ g.token = token /\ g.edition = nth
    OBVIOUS
  <2>2. edition'[d] = nth /\ documents'[d].incarnation = token
    BY <1>1, <1>2, <1>4 DEF TypeOK
  <2>3. token # 0 /\ token < nextIncarnation'
    BY <1>1, <1>2, <1>12, <2>2 DEF TypeOK, TokenStep, Live, Exists
  <2> QED BY <2>1, <2>2, <2>3 DEF Names
<1>14. TokensOK'
  BY <1>1, <1>6, <1>12, <1>13, KeepTokens
<1> QED BY <1>9, <1>10, <1>11, <1>14 DEF IndInv

\* A burial has the type of a tombstone and is one.
LEMMA BuriedType ==
    ASSUME NEW row \in Row, NEW tomb \in Tomb
    PROVE  Buried(row, tomb) \in Tomb /\ Exists(Buried(row, tomb))
<1>1. ContentHash(row) \in {NoHash} \cup HashValue
  BY DEF ContentHash, Row, Blob, HashValue
<1>2. Buried(row, tomb).hash \in {NoHash} \cup HashValue
  BY <1>1 DEF Buried, Tomb
<1>3. Buried(row, tomb).incarnation \in Nat /\ Buried(row, tomb).incarnation # 0
  BY DEF Buried, Tomb, Row, Exists
<1> QED BY <1>2, <1>3 DEF Buried, Tomb, Exists

LEMMA DeleteIndInv ==
    ASSUME IndInv, NEW c \in Conns, DeleteDoc(c)
    PROVE  IndInv'
<1> DEFINE d == req[c].doc
<1>1. TypeOK /\ LocksOK /\ ReadsOK /\ TokensOK /\ pc[c] = "delete"
  BY DEF IndInv, DeleteDoc
<1>2. d \in Docs
  BY <1>1 DEF LocksOK, LockingPcs, CriticalPcs
<1>3. /\ documents' = [documents EXCEPT ![d] = NoRow]
      /\ tombstones' = [tombstones EXCEPT ![d] = Buried(documents[d], tombstones[d])]
      /\ Finish(c, "ack", {}) /\ UNCHANGED <<nextIncarnation, edition, known, listing>>
  BY DEF DeleteDoc
<1>4. /\ ConnTypeOK' /\ OthersSame(c)
      /\ pc'[c] = "reply" /\ req'[c] = req[c] /\ out'[c].grants = {}
      /\ want'[c] = NoDoc /\ c \notin hold'
  <2>1. "ack" \in Responses /\ {} \in SUBSET Grant
    BY DEF Responses
  <2> QED BY <1>1, <1>3, <2>1, FinishFacts
<1>5. TypeOK'
  <2>1. Buried(documents[d], tombstones[d]) \in Tomb
    BY <1>1, <1>2, BuriedType DEF TypeOK
  <2>2. documents' \in [Docs -> Row] /\ tombstones' \in [Docs -> Tomb]
    BY <1>1, <1>3, <2>1, RowTypes DEF TypeOK
  <2> QED BY <1>1, <1>3, <1>4, <2>2 DEF TypeOK, ConnTypeOK
<1>6. LocksOK'
  BY <1>1, <1>4, LeaveLocks DEF ConnTypeOK, Locks!MutexTypeOK
<1>7. ReadsOK'
  <2>1. \A e \in Conns \ {c} : pc[e] \in {"tomb", "store"} => req[e].doc # d /\ req[e].doc \in Docs
    BY <1>1, OnlyWriter DEF CriticalPcs, LockingPcs, LocksOK
  <2>2. \A e \in Conns \ {c} : pc[e] \in {"tomb", "store"} =>
            /\ documents'[req[e].doc] = documents[req[e].doc]
            /\ Exists(tombstones'[req[e].doc]) => Exists(tombstones[req[e].doc])
    BY <1>1, <1>3, <2>1 DEF TypeOK
  <2> QED BY <1>1, <1>4, <2>2, KeepReads
<1>8. TokenStep
  BY <1>1, <1>2, <1>3 DEF TokenStep, TokensOK, TypeOK, NoRow
<1>9. TokensOK'
  BY <1>1, <1>3, <1>4, <1>8, KeepTokens
<1> QED BY <1>5, <1>6, <1>7, <1>9 DEF IndInv

\* Tokens of the row, read in one query with the edition they name.
LEMMA GrantOfNames ==
    ASSUME TypeOK, TokensOK, NEW d \in Docs, Live(d)
    PROVE  GrantOf(d) \in Grant /\ Names(GrantOf(d))
BY DEF TypeOK, TokensOK, GrantOf, Grant, Names, Live, Exists, Row

LEMMA SyncStartIndInv ==
    ASSUME IndInv, NEW c \in Conns, SyncStart(c)
    PROVE  IndInv'
<1>1. TypeOK /\ LocksOK /\ TokensOK /\ pc[c] = "start"
  BY DEF IndInv, SyncStart
<1>2. req[c].doc \in Docs
  BY <1>1 DEF LocksOK
<1>3. UNCHANGED <<dbVars, edition, known>> /\ listing' \in [Conns -> Listing]
  BY <1>1 DEF SyncStart, TypeOK
<1>4. {"doc_unknown", "error", "sync_delta"} \subseteq Responses
  BY DEF Responses
<1>5. CASE Finish(c, "doc_unknown", {})
  BY <1>3, <1>4, <1>5, QuietFinish
<1>6. CASE Finish(c, "error", {})
  BY <1>3, <1>4, <1>6, QuietFinish
<1>7. CASE Live(req[c].doc) /\ Finish(c, "sync_delta", {GrantOf(req[c].doc)})
  <2>1. GrantOf(req[c].doc) \in Grant /\ Names(GrantOf(req[c].doc))
    BY <1>1, <1>2, <1>7, GrantOfNames
  <2>2. PICK gs \in SUBSET Grant : gs = {GrantOf(req[c].doc)}
    BY <2>1
  <2>3. Finish(c, "sync_delta", gs) /\ \A g \in gs : Names(g)
    BY <1>7, <2>1, <2>2
  <2> QED BY <1>3, <1>4, <2>3, QuietFinish
<1> QED BY <1>5, <1>6, <1>7 DEF SyncStart

\* Steps that leave c outside any lock, whatever it answers or lists.
LEMMA OutsideIndInv ==
    ASSUME IndInv, NEW c \in Conns, NEW p \in PcValues \ ({"start"} \cup LockingPcs),
           pc[c] \notin LockingPcs, pc' = [pc EXCEPT ![c] = p],
           UNCHANGED <<dbVars, req, seen, tombed, lockVars, edition, known>>,
           out' \in [Conns -> Response], listing' \in [Conns -> Listing],
           \A e \in Conns \ {c} : out'[e] = out[e],
           \A g \in out'[c].grants : Names(g)
    PROVE  IndInv'
<1>1. TypeOK /\ ReadsOK
  BY DEF IndInv
<1>2. OthersSame(c)
  BY <1>1 DEF OthersSame, TypeOK, lockVars
<1>3. TypeOK' /\ LocksOK' /\ TokensOK'
  <2>1. /\ p \in PcValues /\ p # "start" /\ (pc[c] \in LockingPcs) = (p \in LockingPcs)
        /\ (pc[c] \in CriticalPcs) = (p \in CriticalPcs)
    BY DEF LockingPcs
  <2>2. seen' \in [Conns -> Row] /\ tombed' \in [Conns -> BOOLEAN]
    BY <1>1 DEF TypeOK
  <2> QED BY <1>2, <2>1, <2>2, AdvanceKeeps
<1>4. pc'[c] \notin {"tomb", "store"}
  BY <1>1 DEF TypeOK, LockingPcs, CriticalPcs
<1>5. ReadsOK'
  BY <1>1, <1>2, <1>4, KeepReads DEF dbVars
<1> QED BY <1>3, <1>5 DEF IndInv

LEMMA ListingTypes ==
    ASSUME NEW l \in Listing, NEW ds \in SUBSET Docs
    PROVE  /\ [l EXCEPT !.tombs = ds] \in Listing /\ [l EXCEPT !.hashes = ds] \in Listing
           /\ [l EXCEPT !.steady = @ \ ds] \in Listing
BY DEF Listing

LEMMA ListIndInv ==
    ASSUME IndInv, NEW c \in Conns, ListDocs(c) \/ ListTombstones(c) \/ ListHashes(c)
    PROVE  IndInv'
<1>1. TypeOK /\ TokensOK
  BY DEF IndInv
<1>2. {"list_tombs", "list_hashes", "reply"} \subseteq PcValues \ ({"start"} \cup LockingPcs)
  BY DEF PcValues, LockingPcs, CriticalPcs
<1>3. CASE ListDocs(c)
  <2> DEFINE gs == {GrantOf(d) : d \in {e \in Docs : Live(e)}}
  <2>1. gs \in SUBSET Grant /\ \A g \in gs : Names(g)
    BY <1>1, GrantOfNames
  <2>2. [kind |-> "doc_list", grants |-> gs] \in Response
    BY <2>1 DEF Response, Responses
  <2>3. out' = [out EXCEPT ![c] = [kind |-> "doc_list", grants |-> gs]]
    BY <1>3 DEF ListDocs
  <2>4. out' \in [Conns -> Response] /\ out'[c].grants = gs /\ \A e \in Conns \ {c} : out'[e] = out[e]
    BY <1>1, <2>2, <2>3 DEF TypeOK
  <2>5. listing' \in [Conns -> Listing]
    BY <1>1, <1>3 DEF ListDocs, TypeOK, Listing, NoListing
  <2>6. /\ pc[c] \notin LockingPcs /\ pc' = [pc EXCEPT ![c] = "list_tombs"]
        /\ UNCHANGED <<dbVars, req, seen, tombed, lockVars, edition, known>>
    BY <1>3 DEF ListDocs, LockingPcs, CriticalPcs
  <2> QED BY <1>2, <2>1, <2>4, <2>5, <2>6, OutsideIndInv
<1>4. CASE ListTombstones(c)
  <2>1. listing' \in [Conns -> Listing]
    <3>1. listing' = [listing EXCEPT ![c] = [listing[c] EXCEPT !.tombs = {d \in Docs : Tombstoned(d)}]]
      BY <1>4 DEF ListTombstones
    <3>2. [listing[c] EXCEPT !.tombs = {d \in Docs : Tombstoned(d)}] \in Listing
      BY <1>1, ListingTypes DEF TypeOK
    <3> QED BY <1>1, <3>1, <3>2 DEF TypeOK
  <2>2. /\ pc[c] \notin LockingPcs /\ pc' = [pc EXCEPT ![c] = "list_hashes"] /\ out' = out
        /\ UNCHANGED <<dbVars, req, seen, tombed, lockVars, edition, known>>
    BY <1>4 DEF ListTombstones, LockingPcs, CriticalPcs
  <2>3. out' \in [Conns -> Response] /\ \A g \in out'[c].grants : Names(g)
    BY <1>1, <2>2 DEF TypeOK, TokensOK
  <2> QED BY <1>2, <2>1, <2>2, <2>3, OutsideIndInv
<1>5. CASE ListHashes(c)
  <2>1. listing' \in [Conns -> Listing]
    <3>1. listing' = [listing EXCEPT ![c] = [listing[c] EXCEPT !.hashes = {d \in Docs : Tombstoned(d)}]]
      BY <1>5 DEF ListHashes
    <3>2. [listing[c] EXCEPT !.hashes = {d \in Docs : Tombstoned(d)}] \in Listing
      BY <1>1, ListingTypes DEF TypeOK
    <3> QED BY <1>1, <3>1, <3>2 DEF TypeOK
  <2>2. /\ pc[c] \notin LockingPcs /\ pc' = [pc EXCEPT ![c] = "reply"] /\ out' = out
        /\ UNCHANGED <<dbVars, req, seen, tombed, lockVars, edition, known>>
    BY <1>5 DEF ListHashes, LockingPcs, CriticalPcs
  <2>3. out' \in [Conns -> Response] /\ \A g \in out'[c].grants : Names(g)
    BY <1>1, <2>2 DEF TypeOK, TokensOK
  <2> QED BY <1>2, <2>1, <2>2, <2>3, OutsideIndInv
<1> QED BY <1>3, <1>4, <1>5

\* Requests that ask for no lock.
LEMMA ReceiveUnlockedIndInv ==
    ASSUME IndInv, NEW c \in Conns, ReceiveBad(c) \/ ReceiveRead(c)
    PROVE  IndInv'
<1>1. TypeOK /\ LocksOK /\ ReadsOK /\ TokensOK
  BY DEF IndInv
<1>2. /\ pc[c] = "idle" /\ UNCHANGED <<dbVars, seen, tombed, lockVars, edition, known, listing>>
  BY DEF ReceiveBad, ReceiveRead
<1>3. PICK r \in Request, p \in {"reply", "start", "list_docs"} :
          /\ req' = [req EXCEPT ![c] = r] /\ pc' = [pc EXCEPT ![c] = p]
          /\ r.expected = NoToken /\ (p = "start" => r.doc \in Docs)
  <2>1. CASE ReceiveBad(c)
    <3>1. [NoReq EXCEPT !.op = "bad"] \in Request /\ [NoReq EXCEPT !.op = "bad"].expected = NoToken
      BY RowTypes DEF NoReq, Request
    <3> QED BY <2>1, <3>1 DEF ReceiveBad
  <2>2. CASE ReceiveRead(c)
    <3>1. \A d \in Docs, x \in {{}, Corrupt} :
            /\ [NoReq EXCEPT !.op = "start", !.doc = d, !.payload = x] \in Request
            /\ [NoReq EXCEPT !.op = "start", !.doc = d, !.payload = x].expected = NoToken
            /\ [NoReq EXCEPT !.op = "start", !.doc = d, !.payload = x].doc = d
      BY RowTypes DEF NoReq, Request, Blob, History
    <3>2. [NoReq EXCEPT !.op = "list"] \in Request /\ [NoReq EXCEPT !.op = "list"].expected = NoToken
      BY RowTypes DEF NoReq, Request
    <3>3. CASE pc' = [pc EXCEPT ![c] = "start"] /\ \E d \in Docs, x \in {{}, Corrupt} :
                  req' = [req EXCEPT ![c] = [NoReq EXCEPT !.op = "start", !.doc = d, !.payload = x]]
      <4>1. PICK d \in Docs, x \in {{}, Corrupt} :
                req' = [req EXCEPT ![c] = [NoReq EXCEPT !.op = "start", !.doc = d, !.payload = x]]
        BY <3>3
      <4>2. PICK r \in Request : r = [NoReq EXCEPT !.op = "start", !.doc = d, !.payload = x]
        BY <3>1
      <4>3. r.expected = NoToken /\ r.doc \in Docs /\ req' = [req EXCEPT ![c] = r]
        BY <3>1, <4>1, <4>2
      <4> QED BY <3>3, <4>3
    <3>4. CASE /\ req' = [req EXCEPT ![c] = [NoReq EXCEPT !.op = "list"]]
               /\ pc' = [pc EXCEPT ![c] = "list_docs"]
      BY <3>2, <3>4
    <3> QED BY <2>2, <3>3, <3>4 DEF ReceiveRead
  <2> QED BY <2>1, <2>2
<1>4. out' \in [Conns -> Response] /\ (\A e \in Conns \ {c} : out'[e] = out[e])
      /\ (\A g \in out'[c].grants : Names(g))
  <2>1. CASE ReceiveBad(c)
    <3>1. [kind |-> "error", grants |-> {}] \in Response
      BY DEF Response, Responses
    <3> QED BY <1>1, <2>1, <3>1 DEF ReceiveBad, TypeOK
  <2>2. CASE ReceiveRead(c)
    BY <1>1, <2>2 DEF ReceiveRead, TypeOK, TokensOK
  <2> QED BY <2>1, <2>2
<1>5. OthersSame(c) /\ pc'[c] = p /\ req'[c] = r
  BY <1>1, <1>2, <1>3, <1>4 DEF OthersSame, TypeOK, lockVars
<1>6. TypeOK'
  BY <1>1, <1>2, <1>3, <1>4 DEF TypeOK, Locks!MutexTypeOK, PcValues, dbVars, lockVars
<1>7. LocksOK'
  <2>1. \A e \in Conns : e \in hold' <=> pc'[e] \in CriticalPcs
    BY <1>1, <1>2, <1>3 DEF LocksOK, CriticalPcs, TypeOK, lockVars
  <2>2. \A e \in Conns : want'[e] = IF pc'[e] \in LockingPcs THEN req'[e].doc ELSE NoDoc
    BY <1>1, <1>2, <1>3 DEF LocksOK, LockingPcs, CriticalPcs, TypeOK, lockVars
  <2>3. \A e \in Conns : pc'[e] \in {"start"} \cup LockingPcs => req'[e].doc \in Docs
    BY <1>1, <1>2, <1>3 DEF LocksOK, LockingPcs, CriticalPcs, TypeOK
  <2>4. Locks!MutualExclusion'
    BY <1>1, <1>2 DEF LocksOK, Locks!MutualExclusion, lockVars
  <2> QED BY <2>1, <2>2, <2>3, <2>4 DEF LocksOK
<1>8. ReadsOK'
  BY <1>1, <1>2, <1>3, <1>5, KeepReads DEF dbVars
<1>9. TokenStep
  BY <1>1, <1>2 DEF TokenStep, TokensOK, TypeOK, dbVars
<1>10. \A g \in out'[c].grants : Names(g)'
  BY <1>2, <1>4 DEF Names, dbVars
<1>11. TokensOK'
  BY <1>1, <1>2, <1>3, <1>5, <1>9, <1>10, KeepTokens
<1> QED BY <1>6, <1>7, <1>8, <1>11 DEF IndInv

\* The end of a request, by its response or by the end of the connection.
LEMMA EndIndInv ==
    ASSUME IndInv, NEW c \in Conns, Reply(c) \/ Disconnect(c)
    PROVE  IndInv'
<1>1. TypeOK /\ LocksOK /\ ReadsOK /\ TokensOK
  BY DEF IndInv
<1>2. /\ pc' = [pc EXCEPT ![c] = "idle"] /\ req' = [req EXCEPT ![c] = NoReq]
      /\ out' = [out EXCEPT ![c] = NoOut] /\ listing' = [listing EXCEPT ![c] = NoListing]
      /\ UNCHANGED <<dbVars, edition>> /\ known' \subseteq known \cup out[c].grants
  BY DEF Reply, Disconnect, Reset
<1>3. want' = [want EXCEPT ![c] = NoDoc] /\ hold' = hold \ {c}
  <2>1. CASE want[c] = NoDoc
    <3>1. c \notin hold
      BY <1>1, <2>1, ConstantsAssumption DEF LocksOK, LockingPcs, CriticalPcs
    <3>2. UNCHANGED lockVars
      BY <2>1 DEF Reply, Disconnect
    <3> QED BY <1>1, <2>1, <3>1, <3>2 DEF lockVars, TypeOK, Locks!MutexTypeOK
  <2>2. CASE want[c] # NoDoc
    <3>1. ~Reply(c)
      BY <1>1, <2>2 DEF Reply, LocksOK, LockingPcs, CriticalPcs
    <3> QED BY <2>2, <3>1 DEF Disconnect, Locks!Release
  <2> QED BY <2>1, <2>2
<1>4. /\ seen' \in {seen, [seen EXCEPT ![c] = NoRow]}
      /\ tombed' \in {tombed, [tombed EXCEPT ![c] = FALSE]}
  BY DEF Reply, Disconnect
<1>5. OthersSame(c)
  BY <1>1, <1>2, <1>3, <1>4 DEF OthersSame, TypeOK, Locks!MutexTypeOK
<1>6. TypeOK'
  <2>1. seen' \in [Conns -> Row] /\ tombed' \in [Conns -> BOOLEAN]
    BY <1>1, <1>4, RowTypes DEF TypeOK
  <2>2. listing' \in [Conns -> Listing]
    BY <1>1, <1>2 DEF TypeOK, Listing, NoListing
  <2>3. known' \in SUBSET Grant
    BY <1>1, <1>2 DEF TypeOK, Response
  <2> QED
    BY <1>1, <1>2, <1>3, <2>1, <2>2, <2>3, RowTypes
    DEF TypeOK, Locks!MutexTypeOK, PcValues, dbVars
<1>7. pc'[c] = "idle" /\ req'[c] = NoReq /\ out'[c] = NoOut /\ want'[c] = NoDoc /\ c \notin hold'
  BY <1>1, <1>2, <1>3 DEF TypeOK, Locks!MutexTypeOK
<1>8. LocksOK'
  BY <1>1, <1>5, <1>6, <1>7, LeaveLocks DEF TypeOK, Locks!MutexTypeOK
<1>9. ReadsOK'
  BY <1>1, <1>2, <1>5, <1>7, KeepReads DEF dbVars
<1>10. TokenStep
  BY <1>1, <1>2 DEF TokenStep, TokensOK, TypeOK, dbVars
<1>11. TokensOK'
  BY <1>1, <1>2, <1>5, <1>7, <1>10, KeepTokens DEF NoOut, NoReq
<1> QED BY <1>6, <1>8, <1>9, <1>11 DEF IndInv

\* Expiry takes no lock, but only takes tombstones away.
LEMMA ExpireIndInv ==
    ASSUME IndInv, NEW d \in Docs, ExpireTombstone(d)
    PROVE  IndInv'
<1>1. TypeOK /\ LocksOK /\ ReadsOK /\ TokensOK
  BY DEF IndInv
<1>2. /\ tombstones' = [tombstones EXCEPT ![d] = NoTomb]
      /\ UNCHANGED <<documents, nextIncarnation, connVars, edition, known>>
  BY DEF ExpireTombstone
<1>3. listing' \in [Conns -> Listing]
  BY <1>1 DEF ExpireTombstone, TypeOK, Listing
<1>4. TypeOK'
  BY <1>1, <1>2, <1>3, RowTypes DEF TypeOK, Locks!MutexTypeOK, connVars, lockVars
<1>5. LocksOK'
  BY <1>1, <1>2 DEF LocksOK, Locks!MutualExclusion, connVars, lockVars
<1>6. \A e \in Docs : Exists(tombstones'[e]) => Exists(tombstones[e])
  BY <1>1, <1>2 DEF TypeOK, NoTomb, Exists
<1>7. \A c \in Conns : pc[c] = "store" => req[c].doc \in Docs
  BY <1>1 DEF LocksOK, LockingPcs, CriticalPcs
<1>8. ReadsOK'
  BY <1>1, <1>2, <1>6, <1>7 DEF ReadsOK, connVars, Tombstoned, Replaces
<1>9. TokensOK'
  BY <1>1, <1>2 DEF TokensOK, Names, Meant, connVars
<1> QED BY <1>4, <1>5, <1>8, <1>9 DEF IndInv

LEMMA StoresIndInv ==
    ASSUME IndInv, NEW c \in Conns, StoreSnapshot(c) \/ StoreReplacing(c)
    PROVE  IndInv'
<1>1. /\ TypeOK /\ pc[c] = "store" /\ ~Unmergeable(c) /\ UNCHANGED <<known, listing>>
      /\ tombstones' \in {tombstones, [tombstones EXCEPT ![req[c].doc] = NoTomb]}
  BY DEF IndInv, StoreSnapshot, StoreReplacing
<1>2. req[c].doc \in Docs
  BY <1>1 DEF IndInv, LocksOK, LockingPcs, CriticalPcs
<1>3. nextIncarnation \in Nat /\ documents[req[c].doc].incarnation \in Nat
  BY <1>1, <1>2 DEF TypeOK, Row
<1>4. (~Exists(seen[c])) \in BOOLEAN
  BY DEF Exists
<1>5. CASE /\ Live(req[c].doc)
           /\ Store(c, documents[req[c].doc].incarnation, FALSE, ~Exists(seen[c]))
  <2>1. PICK token \in Nat, granted \in BOOLEAN :
            token = documents[req[c].doc].incarnation /\ granted = ~Exists(seen[c])
    BY <1>3, <1>4
  <2>2. Store(c, token, FALSE, granted)
    BY <1>5, <2>1
  <2> QED BY <1>1, <1>5, <2>1, <2>2, StoreIndInv
<1>6. CASE CanAllocate /\ Store(c, nextIncarnation, TRUE, ~Exists(seen[c]))
  <2>1. PICK token \in Nat, granted \in BOOLEAN :
            token = nextIncarnation /\ granted = ~Exists(seen[c])
    BY <1>3, <1>4
  <2>2. Store(c, token, TRUE, granted)
    BY <1>6, <2>1
  <2> QED BY <1>1, <1>6, <2>1, <2>2, StoreIndInv
<1>7. CASE CanAllocate /\ Store(c, nextIncarnation, TRUE, TRUE)
  <2>1. PICK token \in Nat : token = nextIncarnation
    BY <1>3
  <2>2. Store(c, token, TRUE, TRUE)
    BY <1>7, <2>1
  <2> QED BY <1>1, <1>7, <2>1, <2>2, StoreIndInv
<1> QED BY <1>5, <1>6, <1>7 DEF StoreSnapshot, StoreReplacing

LEMMA NextIndInv == IndInv /\ [Next]_vars => IndInv'
<1> SUFFICES ASSUME IndInv, [Next]_vars PROVE IndInv'
  OBVIOUS
<1>0. TypeOK
  BY DEF IndInv
<1>1. ASSUME NEW c \in Conns, ReceiveBad(c) \/ ReceiveRead(c) PROVE IndInv'
  BY <1>1, ReceiveUnlockedIndInv
<1>2. ASSUME NEW c \in Conns, ReceivePush(c) PROVE IndInv'
  <2>1. PICK d \in Docs, p \in Payloads :
            Receive(c, [NoReq EXCEPT !.op = "push", !.doc = d, !.payload = p])
    BY <1>2 DEF ReceivePush
  <2>2. [NoReq EXCEPT !.op = "push", !.doc = d, !.payload = p] \in Request
    BY ConstantsAssumption DEF NoReq, Request
  <2> QED BY <2>1, <2>2, ReceiveIndInv DEF NoReq
<1>3. ASSUME NEW c \in Conns, ReceiveCreate(c) PROVE IndInv'
  <2>1. PICK d \in Docs, p \in Payloads, b \in BOOLEAN :
            Receive(c, [NoReq EXCEPT !.op = "create", !.doc = d, !.payload = p, !.replace = b])
    BY <1>3 DEF ReceiveCreate
  <2>2. [NoReq EXCEPT !.op = "create", !.doc = d, !.payload = p, !.replace = b] \in Request
    BY ConstantsAssumption DEF NoReq, Request
  <2> QED BY <2>1, <2>2, ReceiveIndInv DEF NoReq
<1>4. ASSUME NEW c \in Conns, ReceiveDelete(c) PROVE IndInv'
  <2>1. CASE \E d \in Docs, t \in {NoToken, 0} :
                Receive(c, [NoReq EXCEPT !.op = "delete", !.doc = d, !.expected = t])
    <3>1. PICK d \in Docs, t \in {NoToken, 0} :
              Receive(c, [NoReq EXCEPT !.op = "delete", !.doc = d, !.expected = t])
      BY <2>1
    <3>2. t \in {NoToken} \cup Nat
      OBVIOUS
    <3>3. PICK r \in Request : r = [NoReq EXCEPT !.op = "delete", !.doc = d, !.expected = t]
      BY <3>2 DEF NoReq, Request, Blob, History
    <3>4. r.doc \in Docs /\ r.expected \in {NoToken, 0}
      BY <3>3 DEF NoReq
    <3> QED BY <3>1, <3>3, <3>4, ReceiveIndInv
  <2>2. CASE \E g \in known :
                Receive(c, [NoReq EXCEPT !.op = "delete", !.doc = g.doc,
                                         !.expected = g.token, !.about = g.edition])
    <3>1. PICK g \in known :
              Receive(c, [NoReq EXCEPT !.op = "delete", !.doc = g.doc,
                                       !.expected = g.token, !.about = g.edition])
      BY <2>2
    <3>2. g \in Grant
      BY <1>0 DEF TypeOK
    <3>3. PICK r \in Request : r = [NoReq EXCEPT !.op = "delete", !.doc = g.doc,
                                                 !.expected = g.token, !.about = g.edition]
      BY <3>2 DEF NoReq, Request, Blob, History, Grant
    <3>4. r.doc = g.doc /\ r.expected = g.token /\ r.about = g.edition /\ r.doc \in Docs
      BY <3>2, <3>3 DEF NoReq, Grant
    <3> QED BY <3>1, <3>3, <3>4, ReceiveIndInv
  <2> QED BY <1>4, <2>1, <2>2 DEF ReceiveDelete
<1>5. ASSUME NEW c \in Conns, Lock(c) PROVE IndInv'
  BY <1>5, LockIndInv
<1>6. ASSUME NEW c \in Conns, ReadExisting(c) PROVE IndInv'
  BY <1>6, ReadIndInv
<1>7. ASSUME NEW c \in Conns, CheckTombstone(c) PROVE IndInv'
  BY <1>7, CheckIndInv
<1>8. ASSUME NEW c \in Conns,
             RefuseConflict(c) \/ FailMerge(c) \/ FailExhausted(c) \/ RejectDelete(c) \/ StorageError(c)
      PROVE  IndInv'
  <2>1. UNCHANGED <<dbVars, edition, known>> /\ listing' \in [Conns -> Listing]
    BY <1>0, <1>8
    DEF RefuseConflict, FailMerge, FailExhausted, RejectDelete, StorageError, TypeOK,
        Listing, NoListing
  <2>2. PICK kind \in Responses : Finish(c, kind, {})
    BY <1>8
    DEF RefuseConflict, FailMerge, FailExhausted, RejectDelete, StorageError, Responses
  <2> QED BY <2>1, <2>2, QuietFinish
<1>9. ASSUME NEW c \in Conns, StoreSnapshot(c) \/ StoreReplacing(c) PROVE IndInv'
  BY <1>9, StoresIndInv
<1>10. ASSUME NEW c \in Conns, DeleteDoc(c) PROVE IndInv'
  BY <1>10, DeleteIndInv
<1>11. ASSUME NEW c \in Conns, SyncStart(c) PROVE IndInv'
  BY <1>11, SyncStartIndInv
<1>12. ASSUME NEW c \in Conns, ListDocs(c) \/ ListTombstones(c) \/ ListHashes(c) PROVE IndInv'
  BY <1>12, ListIndInv
<1>13. ASSUME NEW c \in Conns, Reply(c) \/ Disconnect(c) PROVE IndInv'
  BY <1>13, EndIndInv
<1>14. ASSUME NEW d \in Docs, ExpireTombstone(d) PROVE IndInv'
  BY <1>14, ExpireIndInv
<1>15. CASE UNCHANGED vars
  <2>1. UNCHANGED <<documents, tombstones, nextIncarnation, pc, req, seen, tombed, out,
                    want, hold, edition, known, listing>>
    BY <1>15 DEF vars, dbVars, connVars, lockVars
  <2> QED
    BY <2>1
    DEF IndInv, TypeOK, Locks!MutexTypeOK, LocksOK, Locks!MutualExclusion, ReadsOK,
        TokensOK, Names, Meant, Tombstoned, Replaces
<1> QED
  BY <1>1, <1>2, <1>3, <1>4, <1>5, <1>6, <1>7, <1>8, <1>9, <1>10, <1>11, <1>12, <1>13,
     <1>14, <1>15
  DEF Next, Handle

\* The invariant the handlers rely on holds in every reachable state.
THEOREM SyncInvariant == Spec => []IndInv
BY InitIndInv, NextIndInv, PTL DEF Spec

\* The tables, the handlers' local state and the locks keep their types, and
\* the token counter stays within its space.
THEOREM TypeCorrect == Spec => []TypeOK
<1>1. IndInv => TypeOK
  BY DEF IndInv
<1> QED BY <1>1, SyncInvariant, PTL

-----------------------------------------------------------------------------
(* What each action does to the database, and the action properties.       *)

LEMMA WhoWrites ==
    ASSUME [Next]_vars
    PROVE  \/ UNCHANGED <<dbVars, edition>>
           \/ \E c \in Conns : StoreSnapshot(c) \/ StoreReplacing(c)
           \/ \E c \in Conns : DeleteDoc(c)
           \/ \E d \in Docs : ExpireTombstone(d)
<1>1. ASSUME NEW c \in Conns, NEW r, Receive(c, r) PROVE UNCHANGED <<dbVars, edition>>
  BY <1>1 DEF Receive
<1>2. ASSUME NEW c \in Conns, ReceivePush(c) \/ ReceiveCreate(c) \/ ReceiveDelete(c)
      PROVE  UNCHANGED <<dbVars, edition>>
  <2>1. PICK r : Receive(c, r)
    BY <1>2 DEF ReceivePush, ReceiveCreate, ReceiveDelete
  <2> QED BY <1>1, <2>1
<1>3. ASSUME NEW c \in Conns, ReceiveBad(c) \/ ReceiveRead(c) \/ Lock(c)
      PROVE  UNCHANGED <<dbVars, edition>>
  BY <1>3 DEF ReceiveBad, ReceiveRead, Lock
<1>4. ASSUME NEW c \in Conns,
             \/ ReadExisting(c) \/ CheckTombstone(c) \/ RefuseConflict(c) \/ FailMerge(c)
             \/ FailExhausted(c) \/ RejectDelete(c) \/ SyncStart(c)
      PROVE  UNCHANGED <<dbVars, edition>>
  BY <1>4
  DEF ReadExisting, CheckTombstone, RefuseConflict, FailMerge, FailExhausted, RejectDelete,
      SyncStart
<1>5. ASSUME NEW c \in Conns,
             \/ ListDocs(c) \/ ListTombstones(c) \/ ListHashes(c)
             \/ Reply(c) \/ StorageError(c) \/ Disconnect(c)
      PROVE  UNCHANGED <<dbVars, edition>>
  BY <1>5 DEF ListDocs, ListTombstones, ListHashes, Reply, StorageError, Disconnect
<1>6. CASE UNCHANGED vars
  BY <1>6 DEF vars
<1> QED BY <1>2, <1>3, <1>4, <1>5, <1>6 DEF Next, Handle

\* A store brings one path to life or extends its history; where it meets a
\* tombstone without a row, the client asked to replace it and it goes.
LEMMA StoreFacts ==
    ASSUME IndInv, NEW c \in Conns, NEW d, d = req[c].doc,
           StoreSnapshot(c) \/ StoreReplacing(c)
    PROVE  /\ d \in Docs /\ pc[c] = "store" /\ Live(d)'
           /\ \A e \in Docs \ {d} : /\ documents'[e] = documents[e] /\ edition'[e] = edition[e]
                                    /\ tombstones'[e] = tombstones[e]
           /\ documents'[d].snapshot \in History
           /\ Live(d) => /\ documents[d].snapshot \in History
                         /\ documents[d].snapshot \subseteq documents'[d].snapshot
           /\ ~Live(d) => edition'[d] = edition[d] + 1
           /\ edition'[d] \in {edition[d], edition[d] + 1}
           /\ ~Live(d) /\ Tombstoned(d) => ~Tombstoned(d)' /\ Replaces(c)
           /\ Tombstoned(d)' => Live(d) /\ Tombstoned(d)
<1> DEFINE merged == Import(seen[c].snapshot, req[c].payload)
<1>1. /\ TypeOK /\ LocksOK /\ ReadsOK /\ pc[c] = "store" /\ ~Unmergeable(c)
  BY DEF IndInv, StoreSnapshot, StoreReplacing
<1>2. d \in Docs /\ seen[c] = documents[d]
  BY <1>1 DEF LocksOK, LockingPcs, CriticalPcs, ReadsOK
<1>3. documents[d].snapshot \in History /\ req[c].payload \in History
  BY <1>1, <1>2 DEF TypeOK, Row, Request, Blob, Unmergeable
<1>4. merged \in History /\ documents[d].snapshot \subseteq merged
  BY <1>2, <1>3, ImportGrows
<1>5. PICK token \in Nat, fresh \in BOOLEAN :
          /\ documents' = [documents EXCEPT ![d] =
                              [snapshot |-> merged, vv |-> merged, incarnation |-> token]]
          /\ edition' = [edition EXCEPT ![d] = edition[d] + (IF fresh THEN 1 ELSE 0)]
          /\ token # 0 /\ (~fresh => Live(d))
  <2>1. documents[d].incarnation \in Nat /\ nextIncarnation \in Nat /\ nextIncarnation # 0
    BY <1>1, <1>2 DEF TypeOK, Row
  <2>2. CASE Live(d) /\ Store(c, documents[d].incarnation, FALSE, ~Exists(seen[c]))
    <3>1. /\ documents' = [documents EXCEPT ![d] =
                [snapshot |-> merged, vv |-> merged, incarnation |-> documents[d].incarnation]]
          /\ edition' = [edition EXCEPT ![d] = edition[d] + (IF FALSE THEN 1 ELSE 0)]
      BY <2>2 DEF Store
    <3> QED BY <2>1, <2>2, <3>1 DEF Live, Exists
  <2>3. CASE \E granted : Store(c, nextIncarnation, TRUE, granted)
    <3>1. /\ documents' = [documents EXCEPT ![d] =
                [snapshot |-> merged, vv |-> merged, incarnation |-> nextIncarnation]]
          /\ edition' = [edition EXCEPT ![d] = edition[d] + (IF TRUE THEN 1 ELSE 0)]
      BY <2>3 DEF Store
    <3> QED BY <2>1, <3>1
  <2> QED BY <2>2, <2>3 DEF StoreSnapshot, StoreReplacing
<1>6. Live(d)'
  BY <1>1, <1>2, <1>5 DEF TypeOK, Live, Exists
<1>7. \A e \in Docs \ {d} : documents'[e] = documents[e] /\ edition'[e] = edition[e]
  BY <1>1, <1>5 DEF TypeOK
<1>8. documents'[d].snapshot = merged
  BY <1>1, <1>2, <1>5 DEF TypeOK
<1>9. edition'[d] = edition[d] + (IF fresh THEN 1 ELSE 0) /\ edition[d] \in Nat
  BY <1>1, <1>2, <1>5 DEF TypeOK
<1>10. CASE StoreSnapshot(c)
  <2>1. tombstones' = tombstones /\ ~ReplacesTombstone(c)
    BY <1>10 DEF StoreSnapshot
  <2>2. ~Live(d) => ~Tombstoned(d)
    BY <1>1, <1>2, <2>1 DEF ReadsOK, Live, ReplacesTombstone
  <2> QED BY <1>1, <1>2, <1>3, <1>4, <1>5, <1>6, <1>7, <1>8, <1>9, <2>1, <2>2 DEF Tombstoned
<1>11. CASE StoreReplacing(c)
  <2>1. tombstones' = [tombstones EXCEPT ![d] = NoTomb] /\ Replaces(c)
    BY <1>11 DEF StoreReplacing, ReplacesTombstone
  <2>2. ~Tombstoned(d)' /\ \A e \in Docs \ {d} : tombstones'[e] = tombstones[e]
    BY <1>1, <1>2, <2>1 DEF TypeOK, Tombstoned, Exists, NoTomb
  <2> QED BY <1>1, <1>2, <1>3, <1>4, <1>5, <1>6, <1>7, <1>8, <1>9, <2>1, <2>2
<1> QED BY <1>10, <1>11

\* A delete buries one path, with the proof of what it held.
LEMMA DeleteFacts ==
    ASSUME IndInv, NEW c \in Conns, NEW d, d = req[c].doc, DeleteDoc(c)
    PROVE  /\ d \in Docs /\ pc[c] = "delete" /\ pc'[c] = "reply" /\ ~TokenMismatch(c)
           /\ ~Live(d)' /\ Tombstoned(d)' /\ edition' = edition
           /\ \A e \in Docs \ {d} : documents'[e] = documents[e] /\ tombstones'[e] = tombstones[e]
           /\ tombstones'[d] = Buried(documents[d], tombstones[d])
<1>1. /\ TypeOK /\ LocksOK /\ pc[c] = "delete" /\ ~TokenMismatch(c)
      /\ documents' = [documents EXCEPT ![d] = NoRow]
      /\ tombstones' = [tombstones EXCEPT ![d] = Buried(documents[d], tombstones[d])]
      /\ pc' = [pc EXCEPT ![c] = "reply"] /\ edition' = edition
  BY DEF IndInv, DeleteDoc, Finish
<1>2. d \in Docs
  BY <1>1 DEF LocksOK, LockingPcs, CriticalPcs
<1>3. Exists(Buried(documents[d], tombstones[d]))
  BY <1>1, <1>2, BuriedType DEF TypeOK
<1>4. documents'[d] = NoRow /\ tombstones'[d] = Buried(documents[d], tombstones[d]) /\ pc'[c] = "reply"
  BY <1>1, <1>2 DEF TypeOK
<1>5. \A e \in Docs \ {d} : documents'[e] = documents[e] /\ tombstones'[e] = tombstones[e]
  BY <1>1 DEF TypeOK
<1> QED BY <1>1, <1>2, <1>3, <1>4, <1>5 DEF Live, Tombstoned, Exists, NoRow

\* An expiry removes one tombstone.
LEMMA ExpireFacts ==
    ASSUME IndInv, NEW d \in Docs, ExpireTombstone(d)
    PROVE  /\ documents' = documents /\ edition' = edition /\ Tombstoned(d) /\ ~Tombstoned(d)'
           /\ tombstones'[d] = NoTomb
           /\ \A e \in Docs \ {d} : tombstones'[e] = tombstones[e]
BY DEF IndInv, TypeOK, ExpireTombstone, Tombstoned, Exists, NoTomb

\* A tombstoned path without a live row comes to life only by the store of a
\* create that asked to replace the tombstone.
THEOREM SyncNoResurrection == Spec => NoResurrection
<1>1. ASSUME IndInv, [Next]_vars, NEW d \in Docs, ~Live(d), Tombstoned(d), Live(d)'
      PROVE  /\ ~Tombstoned(d)'
             /\ \E c \in Conns : pc[c] = "store" /\ req[c].doc = d /\ Replaces(c)
  <2>1. CASE UNCHANGED <<dbVars, edition>>
    BY <1>1, <2>1 DEF Live, dbVars
  <2>2. ASSUME NEW c \in Conns, StoreSnapshot(c) \/ StoreReplacing(c)
        PROVE  ~Tombstoned(d)' /\ pc[c] = "store" /\ req[c].doc = d /\ Replaces(c)
    <3>1. req[c].doc = d
      <4>1. PICK e : e = req[c].doc
        OBVIOUS
      <4>2. \A f \in Docs \ {e} : documents'[f] = documents[f]
        BY <1>1, <2>2, <4>1, StoreFacts
      <4> QED BY <1>1, <4>1, <4>2 DEF Live
    <3> QED BY <1>1, <2>2, <3>1, StoreFacts
  <2>3. ASSUME NEW c \in Conns, DeleteDoc(c) PROVE FALSE
    <3>1. PICK e : e = req[c].doc
      OBVIOUS
    <3> QED BY <1>1, <2>3, <3>1, DeleteFacts DEF Live
  <2>4. ASSUME NEW e \in Docs, ExpireTombstone(e) PROVE FALSE
    BY <1>1, <2>4, ExpireFacts DEF Live
  <2> QED BY <1>1, <2>1, <2>2, <2>3, <2>4, WhoWrites
<1>2. IndInv /\ [Next]_vars => [\A d \in Docs : ~Live(d) /\ Tombstoned(d) /\ Live(d)' =>
          /\ ~Tombstoned(d)'
          /\ \E c \in Conns : pc[c] = "store" /\ req[c].doc = d /\ Replaces(c)]_vars
  BY <1>1
<1> QED BY <1>2, SyncInvariant, PTL DEF Spec, NoResurrection

\* No step leaves a live row and a tombstone that were not both there before.
THEOREM SyncRowsExclusive == Spec => RowsExclusive
<1>1. ASSUME IndInv, [Next]_vars, NEW d \in Docs, Live(d)', Tombstoned(d)'
      PROVE  Live(d) /\ Tombstoned(d)
  <2>1. CASE UNCHANGED <<dbVars, edition>>
    BY <1>1, <2>1 DEF Live, Tombstoned, dbVars
  <2>2. ASSUME NEW c \in Conns, StoreSnapshot(c) \/ StoreReplacing(c)
        PROVE  Live(d) /\ Tombstoned(d)
    <3>1. PICK e : e = req[c].doc
      OBVIOUS
    <3> QED BY <1>1, <2>2, <3>1, StoreFacts DEF Live, Tombstoned
  <2>3. ASSUME NEW c \in Conns, DeleteDoc(c) PROVE Live(d) /\ Tombstoned(d)
    <3>1. PICK e : e = req[c].doc
      OBVIOUS
    <3> QED BY <1>1, <2>3, <3>1, DeleteFacts DEF Live, Tombstoned
  <2>4. ASSUME NEW e \in Docs, ExpireTombstone(e) PROVE Live(d) /\ Tombstoned(d)
    BY <1>1, <2>4, ExpireFacts DEF Live, Tombstoned
  <2> QED BY <1>1, <2>1, <2>2, <2>3, <2>4, WhoWrites
<1>2. IndInv /\ [Next]_vars =>
          [\A d \in Docs : Live(d)' /\ Tombstoned(d)' => Live(d) /\ Tombstoned(d)]_vars
  BY <1>1
<1> QED BY <1>2, SyncInvariant, PTL DEF Spec, RowsExclusive

\* A guarded delete removes the edition its token was told for, or nothing.
THEOREM SyncDeleteMatchesIntent == Spec => DeleteMatchesIntent
<1>1. ASSUME IndInv, [Next]_vars, NEW d \in Docs, Live(d), ~Live(d)'
      PROVE  \E c \in Conns :
                 /\ pc[c] = "delete" /\ pc'[c] = "reply" /\ req[c].doc = d
                 /\ \/ req[c].expected = NoToken
                    \/ req[c].expected # 0 /\ edition[d] = req[c].about
  <2>1. CASE UNCHANGED <<dbVars, edition>>
    BY <1>1, <2>1 DEF Live, dbVars
  <2>2. ASSUME NEW c \in Conns, StoreSnapshot(c) \/ StoreReplacing(c) PROVE FALSE
    <3>1. PICK e : e = req[c].doc
      OBVIOUS
    <3> QED BY <1>1, <2>2, <3>1, StoreFacts DEF Live
  <2>3. ASSUME NEW c \in Conns, DeleteDoc(c)
        PROVE  /\ pc[c] = "delete" /\ pc'[c] = "reply" /\ req[c].doc = d
               /\ \/ req[c].expected = NoToken
                  \/ req[c].expected # 0 /\ edition[d] = req[c].about
    <3>1. req[c].doc = d
      <4>1. PICK e : e = req[c].doc
        OBVIOUS
      <4> QED BY <1>1, <2>3, <4>1, DeleteFacts DEF Live
    <3>2. pc[c] = "delete" /\ pc'[c] = "reply" /\ ~TokenMismatch(c)
      BY <1>1, <2>3, <3>1, DeleteFacts
    <3>3. req[c].expected # NoToken => req[c].expected = documents[d].incarnation
      BY <3>1, <3>2 DEF TokenMismatch
    <3>4. req[c].expected \notin {NoToken, 0} => edition[d] = req[c].about
      BY <1>1, <3>1, <3>3 DEF IndInv, TokensOK, Names, Meant
    <3> QED BY <1>1, <3>1, <3>2, <3>3, <3>4 DEF Live, Exists
  <2>4. ASSUME NEW e \in Docs, ExpireTombstone(e) PROVE FALSE
    BY <1>1, <2>4, ExpireFacts DEF Live
  <2> QED BY <1>1, <2>1, <2>2, <2>3, <2>4, WhoWrites
<1>2. IndInv /\ [Next]_vars => [\A d \in Docs : Live(d) /\ ~Live(d)' =>
          \E c \in Conns :
              /\ pc[c] = "delete" /\ pc'[c] = "reply" /\ req[c].doc = d
              /\ \/ req[c].expected = NoToken
                 \/ req[c].expected # 0 /\ edition[d] = req[c].about]_vars
  BY <1>1
<1> QED BY <1>2, SyncInvariant, PTL DEF Spec, DeleteMatchesIntent

\* No store loses a change another handler stored before.
THEOREM SyncHistoryOnlyGrows == Spec => HistoryOnlyGrows
<1>1. ASSUME IndInv, [Next]_vars, NEW d \in Docs, Live(d), Live(d)'
      PROVE  \/ documents[d] = documents'[d]
             \/ /\ documents[d].snapshot # Corrupt
                /\ documents[d].snapshot \subseteq documents'[d].snapshot
  <2>1. CASE UNCHANGED <<dbVars, edition>>
    BY <2>1 DEF dbVars
  <2>2. ASSUME NEW c \in Conns, StoreSnapshot(c) \/ StoreReplacing(c)
        PROVE  \/ documents[d] = documents'[d]
               \/ /\ documents[d].snapshot # Corrupt
                  /\ documents[d].snapshot \subseteq documents'[d].snapshot
    <3>1. PICK e : e = req[c].doc
      OBVIOUS
    <3>2. \A s \in History : s # Corrupt
      BY ConstantsAssumption
    <3> QED BY <1>1, <2>2, <3>1, <3>2, StoreFacts
  <2>3. ASSUME NEW c \in Conns, DeleteDoc(c) PROVE documents[d] = documents'[d]
    <3>1. PICK e : e = req[c].doc
      OBVIOUS
    <3> QED BY <1>1, <2>3, <3>1, DeleteFacts
  <2>4. ASSUME NEW e \in Docs, ExpireTombstone(e) PROVE documents[d] = documents'[d]
    BY <1>1, <2>4, ExpireFacts
  <2> QED BY <1>1, <2>1, <2>2, <2>3, <2>4, WhoWrites
<1>2. IndInv /\ [Next]_vars => [\A d \in Docs : Live(d) /\ Live(d)' =>
          \/ documents[d] = documents'[d]
          \/ /\ documents[d].snapshot # Corrupt
             /\ documents[d].snapshot \subseteq documents'[d].snapshot]_vars
  BY <1>1
<1> QED BY <1>2, SyncInvariant, PTL DEF Spec, HistoryOnlyGrows

-----------------------------------------------------------------------------
(* The tables implement the life of a path.                                *)

\* What the tables show of the paths a step does not touch stays the same.
LEMMA LifeFrame ==
    ASSUME NEW d \in Docs,
           \A e \in Docs \ {d} : documents'[e] = documents[e] /\ tombstones'[e] = tombstones[e]
    PROVE  /\ LifeStatus' = [LifeStatus EXCEPT ![d] = LifeStatus'[d]]
           /\ LifeContent' = [LifeContent EXCEPT ![d] = LifeContent'[d]]
BY DEF LifeStatus, LifeContent, Live, Tombstoned

\* A stored document is a new edition of its path or extends the live one.
LEMMA StoreLives ==
    ASSUME IndInv, NEW c \in Conns, StoreSnapshot(c) \/ StoreReplacing(c)
    PROVE  Path!LifeNext
<1>1. PICK d : d = req[c].doc
  OBVIOUS
<1>2. d \in Docs /\ Live(d)' /\ documents'[d].snapshot \in History
  BY <1>1, StoreFacts
<1>3. /\ LifeStatus' = [LifeStatus EXCEPT ![d] = LifeStatus'[d]]
      /\ LifeContent' = [LifeContent EXCEPT ![d] = LifeContent'[d]]
  BY <1>1, <1>2, StoreFacts, LifeFrame
<1>4. LifeStatus'[d] = "live" /\ LifeContent'[d] = documents'[d].snapshot
  BY <1>2 DEF LifeStatus, LifeContent
<1>5. edition' = [edition EXCEPT ![d] = edition'[d]]
  <2>1. PICK n : edition' = [edition EXCEPT ![d] = n]
    BY <1>1 DEF StoreSnapshot, StoreReplacing, Store
  <2> QED BY <1>2, <2>1 DEF IndInv, TypeOK
<1>6. CASE ~Live(d)
  <2>1. LifeStatus[d] # "live"
    BY <1>2, <1>6 DEF LifeStatus
  <2>2. edition'[d] = edition[d] + 1
    BY <1>1, <1>6, StoreFacts
  <2> QED BY <1>2, <1>3, <1>4, <1>5, <2>1, <2>2 DEF Path!LifeNext, Path!Establish
<1>7. CASE Live(d)
  <2>1. LifeStatus[d] = "live" /\ LifeContent[d] = documents[d].snapshot
    BY <1>2, <1>7 DEF LifeStatus, LifeContent
  <2>2. /\ documents[d].snapshot \in History
        /\ documents[d].snapshot \subseteq documents'[d].snapshot
        /\ edition'[d] \in {edition[d], edition[d] + 1}
    BY <1>1, <1>7, StoreFacts
  <2>3. documents[d].snapshot # Corrupt
    BY <2>2, ConstantsAssumption
  <2>4. LifeStatus' = LifeStatus
    BY <1>2, <1>3, <1>4, <2>1 DEF LifeStatus
  <2>5. edition' = edition \/ edition' = [edition EXCEPT ![d] = edition[d] + 1]
    BY <1>5, <2>2 DEF IndInv, TypeOK
  <2>6. Path!Merge(d)
    BY <1>2, <1>3, <1>4, <2>1, <2>2, <2>3, <2>4, <2>5 DEF Path!Merge
  <2> QED BY <1>2, <2>6 DEF Path!LifeNext
<1> QED BY <1>6, <1>7

\* A delete keeps the content it found, or the proof of the delete before it.
LEMMA DeleteBuries ==
    ASSUME IndInv, NEW c \in Conns, DeleteDoc(c)
    PROVE  Path!LifeNext
<1>1. PICK d : d = req[c].doc
  OBVIOUS
<1>2. /\ d \in Docs /\ ~Live(d)' /\ Tombstoned(d)' /\ edition' = edition
      /\ tombstones'[d] = Buried(documents[d], tombstones[d])
  BY <1>1, DeleteFacts
<1>3. /\ LifeStatus' = [LifeStatus EXCEPT ![d] = LifeStatus'[d]]
      /\ LifeContent' = [LifeContent EXCEPT ![d] = LifeContent'[d]]
  BY <1>1, <1>2, DeleteFacts, LifeFrame
<1>4. /\ LifeStatus'[d] = "dead"
      /\ LifeContent'[d] = IF tombstones'[d].hash # NoHash THEN tombstones'[d].hash.text ELSE NoHash
  BY <1>2 DEF LifeStatus, LifeContent
<1>5. /\ documents[d] \in Row /\ tombstones[d] \in Tomb
      /\ tombstones'[d] \in Tomb
  BY <1>2, BuriedType DEF IndInv, TypeOK
<1>6. CASE Live(d) /\ documents[d].snapshot = Corrupt
  <2>1. LifeContent[d] = Corrupt
    BY <1>2, <1>6 DEF LifeContent
  <2>2. LifeContent'[d] \in {NoHash} \cup History
    BY <1>4, <1>5 DEF Tomb, HashValue
  <2>3. Path!Bury(d)
    BY <1>2, <1>3, <1>4, <2>1, <2>2 DEF Path!Bury
  <2> QED BY <1>2, <2>3 DEF Path!LifeNext
<1>7. CASE ~Live(d) \/ documents[d].snapshot # Corrupt
  <2>1. ASSUME Live(d) PROVE LifeContent'[d] = LifeContent[d]
    <3>1. documents[d].snapshot \in History
      BY <1>5, <1>7, <2>1 DEF Row, Blob
    <3>2. tombstones'[d].hash = [text |-> documents[d].snapshot]
      BY <1>2, <1>7, <2>1, <3>1, ConstantsAssumption DEF Buried, ContentHash, Live
    <3>3. tombstones'[d].hash # NoHash
      BY <3>1, <3>2, ConstantsAssumption
    <3> QED BY <1>2, <1>4, <2>1, <3>2, <3>3 DEF LifeContent
  <2>2. ASSUME ~Live(d) PROVE LifeContent'[d] = LifeContent[d]
    <3>1. tombstones'[d].hash = tombstones[d].hash
      BY <1>2, <2>2 DEF Buried, ContentHash, Live
    <3> QED BY <1>2, <1>4, <2>2, <3>1 DEF LifeContent
  <2>3. LifeContent'[d] = LifeContent[d]
    BY <2>1, <2>2
  <2>4. LifeContent' = LifeContent
    BY <1>2, <1>3, <2>3 DEF LifeContent
  <2>5. Path!Bury(d)
    BY <1>2, <1>3, <1>4, <2>4 DEF Path!Bury
  <2> QED BY <1>2, <2>5 DEF Path!LifeNext
<1> QED BY <1>6, <1>7

\* An expiry forgets a dead path; beside a live row nobody can tell.
LEMMA ExpiryForgets ==
    ASSUME IndInv, NEW d \in Docs, ExpireTombstone(d)
    PROVE  Path!LifeNext \/ UNCHANGED Path!lifeVars
<1>1. /\ documents' = documents /\ edition' = edition /\ Tombstoned(d) /\ ~Tombstoned(d)'
      /\ tombstones'[d] = NoTomb
      /\ \A e \in Docs \ {d} : tombstones'[e] = tombstones[e]
  BY ExpireFacts
<1>2. /\ LifeStatus' = [LifeStatus EXCEPT ![d] = LifeStatus'[d]]
      /\ LifeContent' = [LifeContent EXCEPT ![d] = LifeContent'[d]]
  BY <1>1, LifeFrame
<1>3. CASE Live(d)
  <2>1. LifeStatus'[d] = LifeStatus[d] /\ LifeContent'[d] = LifeContent[d]
    BY <1>1, <1>3 DEF LifeStatus, LifeContent, Live
  <2>2. LifeStatus' = LifeStatus /\ LifeContent' = LifeContent
    BY <1>2, <2>1 DEF LifeStatus, LifeContent
  <2> QED BY <1>1, <2>2 DEF Path!lifeVars
<1>4. CASE ~Live(d)
  <2>1. LifeStatus[d] = "dead" /\ LifeStatus'[d] = "absent" /\ LifeContent'[d] = NoHash
    BY <1>1, <1>4 DEF LifeStatus, LifeContent, Live, NoTomb
  <2>2. Path!Forget(d)
    BY <1>1, <1>2, <2>1 DEF Path!Forget
  <2> QED BY <2>2 DEF Path!LifeNext
<1> QED BY <1>3, <1>4

\* The handlers, the tables and the expiry implement the life of a path: the
\* status, the proof a tombstone keeps and the editions change only as
\* PathLifecycle allows.
THEOREM SyncImplementsLifecycle == Spec => ImplementsLifecycle
<1>1. Init => Path!LifeInit
  <2>1. SUFFICES ASSUME Init PROVE Path!LifeInit
    OBVIOUS
  <2>2. TypeOK
    BY <2>1, InitIndInv DEF IndInv
  <2>3. LifeStatus \in [Docs -> {"absent", "live", "dead"}]
    BY DEF LifeStatus
  <2>4. ASSUME NEW d \in Docs PROVE LifeContent[d] \in {Corrupt, NoHash} \cup History
    BY <2>2 DEF LifeContent, TypeOK, Row, Blob, Tomb, HashValue
  <2>5. LifeContent \in [Docs -> {Corrupt, NoHash} \cup History]
    BY <2>4 DEF LifeContent
  <2> QED BY <2>2, <2>3, <2>5 DEF Path!LifeInit, TypeOK
<1>2. IndInv /\ [Next]_vars => [Path!LifeNext]_(Path!lifeVars)
  <2>1. SUFFICES ASSUME IndInv, [Next]_vars PROVE [Path!LifeNext]_(Path!lifeVars)
    OBVIOUS
  <2>2. CASE UNCHANGED <<dbVars, edition>>
    <3>1. LifeStatus' = LifeStatus /\ LifeContent' = LifeContent /\ edition' = edition
      BY <2>2 DEF LifeStatus, LifeContent, Live, Tombstoned, dbVars
    <3> QED BY <3>1 DEF Path!lifeVars
  <2>3. ASSUME NEW c \in Conns, StoreSnapshot(c) \/ StoreReplacing(c) PROVE Path!LifeNext
    BY <2>1, <2>3, StoreLives
  <2>4. ASSUME NEW c \in Conns, DeleteDoc(c) PROVE Path!LifeNext
    BY <2>1, <2>4, DeleteBuries
  <2>5. ASSUME NEW d \in Docs, ExpireTombstone(d)
        PROVE  Path!LifeNext \/ UNCHANGED Path!lifeVars
    BY <2>1, <2>5, ExpiryForgets
  <2> QED BY <2>1, <2>2, <2>3, <2>4, <2>5, WhoWrites
<1> QED BY <1>1, <1>2, SyncInvariant, PTL DEF Spec, ImplementsLifecycle, Path!LifeSpec
=============================================================================
