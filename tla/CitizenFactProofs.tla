--------------------------- MODULE CitizenFactProofs ---------------------------
(* However verifications, answers, edits and deletions of a fact overlap, a key is   *)
(* used once, the fact can be traced to those who wrote it, a fact of the profile     *)
(* stays one, and the profile's numbers are not given twice.  What a request read      *)
(* may be old when it is used; the invariant says what it is still good for.          *)
EXTENDS CitizenFact, TLAPS

(* The invariant *)

\* Somebody is accountable for a verified status.
Ground ==
    \/ \E r \in accepted \cap Verifications : r \notin reviews
    \/ \E r \in writers \cap Editors : Submitted[r] = "DOCUMENT_VERIFIED"

\* What a request knows, wherever it is.
RequestInv(r) ==
    /\ Exists(local[r].fact) => Exists(fact) /\ fact.source = local[r].fact.source
    /\ local[r].fact.status = "DOCUMENT_VERIFIED" => Ground
    /\ r \in accepted => pc[r] = "done"
    /\ r \in Keyed /\ HoldsKey(r) => ~Taken(r)
    /\ pc[r] \in {"begin", "updateFact", "snapshot", "commit", "archive", "overwrite"} =>
         Exists(local[r].fact)
    /\ pc[r] = "writeAnswer" /\ Exists(local[r].fact) => local[r].fact.source = "SELF_DECLARED"
    /\ pc[r] \in {"reread", "softDelete"} => Exists(fact)
    /\ pc[r] = "overwrite" => archived[r] > 0
    /\ pc[r] = "saveVersion" => local[r].version > 0 /\ local[r].version <= profile.version
    /\ profileVersion[r] <= profile.version

\* A key has one holder, and one accepted row.
KeyInv ==
    /\ \A q, r \in Keyed : q # r /\ HoldsKey(q) /\ HoldsKey(r) => ~SameKey(q, r)
    /\ \A q, r \in accepted : q # r => ~SameKey(q, r)
    /\ writers \cap Keyed \subseteq accepted
    /\ reviews \subseteq accepted

\* The first writer creates the fact.
TrailInv ==
    /\ writers # {} => Exists(fact)
    /\ OnlyCreationUnaudited
    /\ VerifiedHasGround
    /\ Exists(fact) /\ fact.source = "MANUAL" => fact.value \notin Answers

\* The number a request was given is nobody else's.
NumberInv ==
    /\ ProfileVersionsUnique
    /\ \A q, r \in Requests : pc[q] = "saveVersion" =>
         /\ profileVersion[r] # local[q].version
         /\ q # r /\ pc[r] = "saveVersion" => local[r].version # local[q].version

IInv ==
    /\ TypeOK
    /\ \A r \in Requests : RequestInv(r)
    /\ KeyInv
    /\ TrailInv
    /\ NumberInv
    /\ CompletenessTrails

-------------------------------------------------------------------------------
(* Lemmas about places and types *)

\* What a step of r leaves to the others: their places, what they remember and what
\* they left, that a fact exists and where it is from, who accounts for it, and the
\* profile's numbers.  Only a request that holds its key is accepted.
Leaves(r) ==
    /\ \A q \in Requests \ {r} :
          /\ pc'[q] = pc[q]
          /\ local'[q] = local[q]
          /\ archived'[q] = archived[q]
          /\ profileVersion'[q] = profileVersion[q]
    /\ Exists(fact) => Exists(fact') /\ fact'.source = fact.source
    /\ Ground => Ground'
    /\ profile'.version >= profile.version
    /\ \/ accepted' = accepted
       \/ accepted' = accepted \cup {r} /\ r \in Keyed /\ HoldsKey(r)

\* Where r goes and what it takes along, and that nobody else moves.
Moves(r, place, memory) ==
    /\ pc'[r] = place
    /\ local'[r] = memory
    /\ \A q \in Requests \ {r} : pc'[q] = pc[q] /\ local'[q] = local[q]

LEMMA GotoWithMoves ==
  ASSUME TypeOK, NEW r \in Requests, NEW p \in PC, NEW m \in Local, GotoWith(r, p, m)
  PROVE  Moves(r, p, m) /\ pc' \in [Requests -> PC] /\ local' \in [Requests -> Local]
<1>1. pc \in [Requests -> PC] /\ local \in [Requests -> Local]
  BY DEF TypeOK
<1>2. pc' = [pc EXCEPT ![r] = p] /\ local' = [local EXCEPT ![r] = m]
  BY DEF GotoWith
<1> QED BY <1>1, <1>2 DEF Moves

LEMMA GotoMoves ==
  ASSUME TypeOK, NEW r \in Requests, NEW p \in PC, Goto(r, p)
  PROVE  Moves(r, p, local[r]) /\ pc' \in [Requests -> PC] /\ local' \in [Requests -> Local]
<1>1. pc \in [Requests -> PC] /\ local \in [Requests -> Local]
  BY DEF TypeOK
<1>2. pc' = [pc EXCEPT ![r] = p] /\ local' = local
  BY DEF Goto
<1> QED BY <1>1, <1>2 DEF Moves

LEMMA NoLocalType == /\ NoLocal \in Local
                     /\ NoLocal.fact = NoFact
                     /\ ~Exists(NoLocal.fact)
                     /\ NoLocal.fact.status = "SELF_DECLARED"
BY DEF NoLocal, Local, NoFact, Fact, Exists, Sources, Statuses

LEMMA EndMoves ==
  ASSUME TypeOK, NEW r \in Requests, End(r)
  PROVE  Moves(r, "done", NoLocal) /\ pc' \in [Requests -> PC] /\ local' \in [Requests -> Local]
BY GotoWithMoves, NoLocalType DEF End, PC

\* A memory of the fact alone.
LEMMA MemoryType ==
  ASSUME TypeOK, NEW b \in BOOLEAN
  PROVE  /\ [NoLocal EXCEPT !.fact = fact] \in Local
         /\ [NoLocal EXCEPT !.fact = fact].fact = fact
         /\ [NoLocal EXCEPT !.fact = fact, !.review = b] \in Local
         /\ [NoLocal EXCEPT !.fact = fact, !.review = b].fact = fact
         /\ [NoLocal EXCEPT !.counted = b] \in Local
         /\ [NoLocal EXCEPT !.counted = b].fact = NoFact
BY NoLocalType DEF TypeOK, NoLocal, Local

LEMMA NumberType ==
  ASSUME NEW v \in Nat
  PROVE  /\ [NoLocal EXCEPT !.version = v] \in Local
         /\ [NoLocal EXCEPT !.version = v].fact = NoFact
         /\ [NoLocal EXCEPT !.version = v].version = v
BY NoLocalType DEF NoLocal, Local

LEMMA RequestSets ==
  /\ Keyed \subseteq Requests /\ Editors \subseteq Requests /\ Deletions \subseteq Requests
  /\ Keyed \cap Editors = {} /\ Keyed \cap Deletions = {} /\ Editors \cap Deletions = {}
  /\ Verifications \cap Answers = {}
  /\ Verifications \subseteq Keyed /\ Answers \subseteq Keyed
  /\ Additions \subseteq Editors /\ Updates \subseteq Editors /\ Reconciliations \subseteq Editors
BY CitizenFactAssumption DEF Requests, Keyed, Editors

-------------------------------------------------------------------------------
(* What a step keeps for those who do not take it *)

LEMMA OthersKeep ==
  ASSUME TypeOK, \A q \in Requests : RequestInv(q), KeyInv,
         NEW r \in Requests, Leaves(r), profile' \in [version : Nat, complete : BOOLEAN],
         NEW q \in Requests, q # r
  PROVE  RequestInv(q)'
<1>1. /\ pc'[q] = pc[q] /\ local'[q] = local[q]
      /\ archived'[q] = archived[q] /\ profileVersion'[q] = profileVersion[q]
  BY DEF Leaves
<1>2. q \in accepted' => q \in accepted
  BY DEF Leaves
<1>3. q \in Keyed /\ HoldsKey(q)' => ~Taken(q)'
  <2> SUFFICES ASSUME q \in Keyed, HoldsKey(q)', Taken(q)' PROVE FALSE
    OBVIOUS
  <2>1. HoldsKey(q)
    BY <1>1 DEF HoldsKey, HoldsFact
  <2>2. ~Taken(q)
    BY <2>1 DEF RequestInv
  <2>3. PICK k \in accepted' : SameKey(k, q)
    BY DEF Taken, SameKey
  <2>4. k = r /\ r \in Keyed /\ HoldsKey(r)
    BY <2>2, <2>3 DEF Taken, Leaves
  <2> QED BY <2>1, <2>3, <2>4 DEF KeyInv
<1>4. Exists(local'[q].fact) => Exists(fact') /\ fact'.source = local'[q].fact.source
  BY <1>1 DEF RequestInv, Leaves
<1>5. local'[q].fact.status = "DOCUMENT_VERIFIED" => Ground'
  BY <1>1 DEF RequestInv, Leaves
<1>6. /\ pc'[q] = "saveVersion" => local'[q].version > 0 /\ local'[q].version <= profile'.version
      /\ profileVersion'[q] <= profile'.version
  <2>1. profile.version \in Nat /\ profile'.version \in Nat /\ local[q].version \in Nat
        /\ profileVersion[q] \in Nat
    BY DEF TypeOK, Local
  <2>2. profile'.version >= profile.version
    BY DEF Leaves
  <2> QED BY <1>1, <2>1, <2>2 DEF RequestInv
<1>7. pc'[q] \in {"reread", "softDelete"} => Exists(fact')
  BY <1>1 DEF RequestInv, Leaves
<1> QED
  BY <1>1, <1>2, <1>3, <1>4, <1>5, <1>6, <1>7 DEF RequestInv, Exists

\* Keys stay with one holder when r takes its key only while nobody else has it.
LEMMA KeysKeep ==
  ASSUME TypeOK, \A q \in Requests : RequestInv(q), KeyInv,
         NEW r \in Requests, Leaves(r),
         r \in Keyed /\ HoldsKey(r)' => HoldsKey(r) \/ KeyFree(r),
         writers' \subseteq writers \cup {r}, r \in writers' \cap Keyed => r \in accepted',
         reviews' \subseteq reviews \cup {r}, r \in reviews' => r \in accepted'
  PROVE  KeyInv'
<1>1. \A q \in Requests \ {r} : HoldsKey(q)' => HoldsKey(q)
  BY DEF Leaves, HoldsKey, HoldsFact
<1>2. \A q \in Keyed \ {r} : r \in Keyed /\ HoldsKey(r)' /\ HoldsKey(q)' => ~SameKey(q, r)
  <2> SUFFICES ASSUME NEW q \in Keyed \ {r}, r \in Keyed, HoldsKey(r)', HoldsKey(q)'
               PROVE  ~SameKey(q, r)
    OBVIOUS
  <2>1. HoldsKey(q)
    BY <1>1, RequestSets
  <2> QED BY <2>1 DEF KeyInv, KeyFree
<1>3. \A q, k : SameKey(q, k) => SameKey(k, q)
  BY DEF SameKey
<1>4. \A q, k \in Keyed : q # k /\ HoldsKey(q)' /\ HoldsKey(k)' => ~SameKey(q, k)
  <2> SUFFICES ASSUME NEW q \in Keyed, NEW k \in Keyed, q # k, HoldsKey(q)', HoldsKey(k)'
               PROVE  ~SameKey(q, k)
    OBVIOUS
  <2>1. CASE q = r
    BY <2>1, <1>2, <1>3
  <2>2. CASE k = r
    BY <2>2, <1>2
  <2>3. CASE q # r /\ k # r
    BY <2>3, <1>1, RequestSets DEF KeyInv
  <2> QED BY <2>1, <2>2, <2>3
<1>5. \A q, k \in accepted' : q # k => ~SameKey(q, k)
  <2>1. accepted' = accepted \cup {r} /\ r \in Keyed /\ HoldsKey(r) =>
          \A q \in accepted : ~SameKey(q, r)
    BY DEF RequestInv, Taken
  <2> QED BY <2>1, <1>3 DEF Leaves, KeyInv
<1>6. writers' \cap Keyed \subseteq accepted' /\ reviews' \subseteq accepted'
  BY DEF KeyInv, Leaves
<1> QED BY <1>4, <1>5, <1>6 DEF KeyInv, SameKey

\* The trail of the fact does not change with steps that write no fact.
LEMMA TrailKeeps ==
  ASSUME TrailInv, UNCHANGED <<fact, writers>>, Ground => Ground',
         \A q \in writers : Audited(q) => Audited(q)'
  PROVE  TrailInv'
BY DEF TrailInv, OnlyCreationUnaudited, VerifiedHasGround, Ground, Exists

\* A new writer leaves a row of its own, unless it creates the fact.
LEMMA TrailGrows ==
  ASSUME TrailInv, NEW r \in Requests, writers' = writers \cup {r}, Exists(fact'),
         \A q \in writers : Audited(q) => Audited(q)',
         r \in Deletions \/ Audited(r)' \/ ~Exists(fact),
         fact'.status = "DOCUMENT_VERIFIED" => Ground',
         fact'.source = "MANUAL" => fact'.value \notin Answers
  PROVE  TrailInv'
<1>1. OnlyCreationUnaudited'
  <2>1. CASE ~Exists(fact)
    <3>1. writers' = {r}
      BY <2>1 DEF TrailInv
    <3> QED BY <3>1 DEF OnlyCreationUnaudited
  <2>2. CASE r \in Deletions
    <3>1. \A q \in writers' \ Deletions : q \in writers
      BY <2>2
    <3> QED BY <3>1 DEF TrailInv, OnlyCreationUnaudited
  <2>3. CASE Audited(r)'
    <3>1. \A q \in writers' \ Deletions : ~Audited(q)' => q \in writers /\ ~Audited(q)
      BY <2>3
    <3> QED BY <3>1 DEF TrailInv, OnlyCreationUnaudited
  <2> QED BY <2>1, <2>2, <2>3
<1> QED BY <1>1 DEF TrailInv, VerifiedHasGround, Ground, Exists

\* Numbers stay with one request while no new one is given.
LEMMA NumbersKeep ==
  ASSUME NumberInv, NEW r \in Requests, Leaves(r), UNCHANGED profileVersion,
         pc'[r] # "saveVersion"
  PROVE  NumberInv'
BY DEF NumberInv, ProfileVersionsUnique, Leaves

\* A request about to update the profile stays so, or its end is noted.
LEMMA CompletenessKeeps ==
  ASSUME CompletenessTrails, NEW r \in Requests, Leaves(r),
         Current(fact') <=> Current(fact), Current(fact) \in BOOLEAN,
         profile' = profile, unsynced \subseteq unsynced',
         pc[r] \in {"recalculate", "sync"} =>
           pc'[r] \in {"recalculate", "sync"} \/ unsynced' # {}
  PROVE  CompletenessTrails'
<1> SUFFICES ASSUME profile.complete # Current(fact), unsynced' = {}, accepted' \cap Answers = {}
             PROVE  \E q \in Requests : pc'[q] \in {"recalculate", "sync"}
  BY DEF CompletenessTrails, Current, Exists
<1>1. unsynced = {} /\ accepted \cap Answers = {}
  BY DEF Leaves
<1>2. PICK q \in Requests : pc[q] \in {"recalculate", "sync"}
  BY <1>1 DEF CompletenessTrails
<1> QED BY <1>2 DEF Leaves

\* The ground does not go away.
LEMMA GroundStays ==
  ASSUME writers \subseteq writers', accepted \subseteq accepted',
         \A q \in accepted \ reviews : q \notin reviews'
  PROVE  Ground => Ground'
BY DEF Ground

\* Steps that only move r.
LEMMA QuietLeaves ==
  ASSUME TypeOK, NEW r \in Requests, NEW p, NEW m, Moves(r, p, m),
         UNCHANGED <<fact, writers, accepted, reviews, archived, profile, profileVersion>>
  PROVE  Leaves(r)
<1>1. Ground => Ground'
  BY GroundStays
<1>2. profile'.version >= profile.version
  BY DEF TypeOK
<1> QED BY <1>1, <1>2 DEF Leaves, Moves, Exists

\* A request that has returned is bound by nothing.
LEMMA EndedKeeps ==
  ASSUME NEW r \in Requests, pc'[r] = "done", local'[r] = NoLocal,
         profileVersion'[r] <= profile'.version
  PROVE  RequestInv(r)'
BY NoLocalType DEF RequestInv, Exists, HoldsKey, HoldsFact

-------------------------------------------------------------------------------
(* Steps that only move the request that takes them *)

LEMMA QuietKeeps ==
  ASSUME IInv, TypeOK', NEW r \in Requests, NEW p \in PC, NEW m \in Local, Moves(r, p, m),
         UNCHANGED <<fact, versionRow, writers, accepted, reviews, archived,
                     profile, profileVersion, unsynced>>,
         p # "saveVersion",
         pc[r] \in {"recalculate", "sync"} => p \in {"recalculate", "sync"},
         r \in Keyed /\ HoldsKey(r)' => HoldsKey(r) \/ KeyFree(r),
         RequestInv(r)'
  PROVE  IInv'
<1>1. TypeOK /\ (\A q \in Requests : RequestInv(q)) /\ KeyInv /\ TrailInv /\ NumberInv
      /\ CompletenessTrails
  BY DEF IInv
<1>2. Leaves(r)
  BY <1>1, QuietLeaves
<1>3. profile' \in [version : Nat, complete : BOOLEAN]
  BY <1>1 DEF TypeOK
<1>4. \A q \in Requests : RequestInv(q)'
  BY <1>1, <1>2, <1>3, OthersKeep
<1>5. KeyInv'
  <2>1. r \in writers' \cap Keyed => r \in accepted'
    BY <1>1 DEF KeyInv
  <2>2. r \in reviews' => r \in accepted'
    BY <1>1 DEF KeyInv
  <2> QED BY <1>1, <1>2, <2>1, <2>2, KeysKeep
<1>6. TrailInv'
  <2>1. Ground => Ground'
    BY <1>2 DEF Leaves
  <2>2. \A q \in writers : Audited(q) => Audited(q)'
    BY DEF Audited
  <2> QED BY <1>1, <2>1, <2>2, TrailKeeps
<1>7. NumberInv'
  BY <1>1, <1>2, NumbersKeep DEF Moves
<1>8. CompletenessTrails'
  <2>1. Current(fact') <=> Current(fact)
    BY DEF Current, Exists
  <2>2. Current(fact) \in BOOLEAN
    BY <1>1 DEF Current, Exists, TypeOK, Fact
  <2> QED BY <1>1, <1>2, <2>1, <2>2, CompletenessKeeps DEF Moves
<1> QED BY <1>4, <1>5, <1>6, <1>7, <1>8 DEF IInv

\* The next place asks nothing of the request, or little.
LEMMA MovedKeeps ==
  ASSUME IInv, NEW r \in Requests, NEW p \in PC, NEW m \in Local, Moves(r, p, m),
         pc' \in [Requests -> PC], local' \in [Requests -> Local],
         UNCHANGED <<factVars, accepted, reviews, archived, profileVars>>,
         snapshots' \subseteq Verifications,
         pc[r] # "done", p # "saveVersion",
         pc[r] \in {"recalculate", "sync"} => p \in {"recalculate", "sync"},
         m.fact \in {NoFact, fact, local[r].fact},
         p \in {"updateFact", "writeAnswer", "snapshot", "commit"} =>
            HoldsKey(r) \/ (KeyFree(r) /\ ~Taken(r)),
         r \in Keyed \/ p \notin {"updateFact", "writeAnswer", "snapshot", "commit"},
         p \in {"begin", "updateFact", "snapshot", "commit", "archive"} => Exists(m.fact),
         p # "overwrite",
         p = "writeAnswer" /\ Exists(m.fact) => m.fact.source = "SELF_DECLARED",
         p \in {"reread", "softDelete"} => Exists(fact)
  PROVE  IInv'
<1>1. TypeOK /\ RequestInv(r) /\ VerifiedHasGround
  BY DEF IInv, TrailInv
<1>2. TypeOK'
  BY <1>1 DEF TypeOK, factVars, profileVars
<1>3. pc'[r] = p /\ local'[r] = m
  BY DEF Moves
<1>4. HoldsKey(r)' => p \in {"updateFact", "writeAnswer", "snapshot", "commit"}
  BY <1>3 DEF HoldsKey, HoldsFact
<1>5. HoldsKey(r)' => HoldsKey(r) \/ KeyFree(r)
  BY <1>4
<1>6. r \in Keyed /\ HoldsKey(r)' => ~Taken(r)'
  BY <1>1, <1>4 DEF RequestInv, Taken, SameKey
<1>7. Exists(m.fact) => Exists(fact) /\ fact.source = m.fact.source
  BY <1>1, NoLocalType DEF RequestInv
<1>8. m.fact.status = "DOCUMENT_VERIFIED" => Ground'
  <2>1. m.fact.status = "DOCUMENT_VERIFIED" => Ground
    BY <1>1, NoLocalType DEF RequestInv, VerifiedHasGround, Ground
  <2> QED BY <2>1 DEF Ground, factVars
<1>9. RequestInv(r)'
  <2>1. r \notin accepted'
    BY <1>1 DEF RequestInv
  <2>2. profileVersion'[r] <= profile'.version
    BY <1>1 DEF RequestInv, profileVars
  <2>3. fact' = fact
    BY DEF factVars
  <2> QED BY <1>3, <1>6, <1>7, <1>8, <2>1, <2>2, <2>3 DEF RequestInv, Exists
<1> QED BY <1>2, <1>5, <1>9, QuietKeeps DEF factVars, profileVars

LEMMA VerificationQuiet ==
  ASSUME IInv, NEW r \in Requests,
         \/ FindRun(r)
         \/ r \in Verifications /\ (ReadFact(r) \/ Begin(r) \/ UpdateFact(r) \/ Snapshot(r))
  PROVE  IInv'
<1>0. TypeOK /\ RequestInv(r)
  BY DEF IInv
<1>t. local[r] \in Local /\ snapshots \subseteq Verifications
  BY <1>0 DEF TypeOK
<1>k. r \in Verifications => r \in Keyed
  BY RequestSets
<1>1. CASE FindRun(r)
  <2>1. CASE Taken(r)
    <3>1. Moves(r, "done", NoLocal) /\ pc' \in [Requests -> PC] /\ local' \in [Requests -> Local]
      BY <1>0, <1>1, <2>1, EndMoves DEF FindRun, GotoOrEnd
    <3> QED BY <1>0, <1>1, <1>t, <3>1, NoLocalType, MovedKeeps DEF FindRun, PC, runVars
  <2>2. CASE ~Taken(r)
    <3>1. Moves(r, "readFact", local[r]) /\ pc' \in [Requests -> PC]
          /\ local' \in [Requests -> Local]
      BY <1>0, <1>1, <2>2, GotoMoves DEF FindRun, GotoOrEnd, PC
    <3> QED BY <1>1, <1>t, <3>1, MovedKeeps DEF FindRun, PC, runVars
  <2> QED BY <2>1, <2>2
<1>2. CASE r \in Verifications /\ ReadFact(r)
  <2>1. CASE Exists(fact)
    <3>1. PICK b \in BOOLEAN :
            GotoWith(r, "begin", [NoLocal EXCEPT !.fact = fact, !.review = b])
      BY <1>2, <2>1 DEF ReadFact
    <3> DEFINE m == [NoLocal EXCEPT !.fact = fact, !.review = b]
    <3>2. m \in Local /\ m.fact = fact
      BY <1>0, MemoryType
    <3>3. GotoWith(r, "begin", m)
      BY <3>1
    <3> HIDE DEF m
    <3>4. Moves(r, "begin", m) /\ pc' \in [Requests -> PC] /\ local' \in [Requests -> Local]
      BY <1>0, <3>2, <3>3, GotoWithMoves DEF PC
    <3> QED BY <1>2, <1>t, <2>1, <3>2, <3>4, MovedKeeps DEF ReadFact, PC, runVars
  <2>2. CASE ~Exists(fact)
    <3>1. Moves(r, "done", NoLocal) /\ pc' \in [Requests -> PC] /\ local' \in [Requests -> Local]
      BY <1>0, <1>2, <2>2, EndMoves DEF ReadFact
    <3> QED BY <1>2, <1>t, <3>1, NoLocalType, MovedKeeps DEF ReadFact, PC, runVars
  <2> QED BY <2>1, <2>2
<1>3. CASE r \in Verifications /\ Begin(r)
  <2>1. CASE Taken(r)
    <3>1. Moves(r, "done", NoLocal) /\ pc' \in [Requests -> PC] /\ local' \in [Requests -> Local]
      BY <1>0, <1>3, <2>1, EndMoves DEF Begin, GotoOrEnd
    <3> QED BY <1>3, <1>t, <3>1, NoLocalType, MovedKeeps DEF Begin, PC, runVars
  <2>2. CASE ~Taken(r)
    <3>1. Moves(r, "updateFact", local[r]) /\ pc' \in [Requests -> PC]
          /\ local' \in [Requests -> Local]
      BY <1>0, <1>3, <2>2, GotoMoves DEF Begin, GotoOrEnd, PC
    <3>2. Exists(local[r].fact)
      BY <1>0, <1>3 DEF Begin, RequestInv
    <3> QED BY <1>3, <1>t, <1>k, <2>2, <3>1, <3>2, MovedKeeps DEF Begin, PC, runVars
  <2> QED BY <2>1, <2>2
<1>4. CASE r \in Verifications /\ UpdateFact(r)
  <2>1. Moves(r, "snapshot", local[r]) /\ pc' \in [Requests -> PC]
        /\ local' \in [Requests -> Local]
    BY <1>0, <1>4, GotoMoves DEF UpdateFact, PC
  <2>2. Exists(local[r].fact) /\ HoldsKey(r)
    BY <1>0, <1>4 DEF UpdateFact, RequestInv, HoldsKey
  <2> QED BY <1>4, <1>t, <1>k, <2>1, <2>2, MovedKeeps DEF UpdateFact, PC, runVars
<1>5. CASE r \in Verifications /\ Snapshot(r)
  <2>1. Moves(r, "commit", local[r]) /\ pc' \in [Requests -> PC]
        /\ local' \in [Requests -> Local]
    BY <1>0, <1>5, GotoMoves DEF Snapshot, PC
  <2>2. Exists(local[r].fact) /\ HoldsKey(r)
    BY <1>0, <1>5 DEF Snapshot, RequestInv, HoldsKey, HoldsFact
  <2>3. snapshots' \subseteq Verifications
    BY <1>5, <1>t DEF Snapshot
  <2> QED BY <1>5, <1>t, <1>k, <2>1, <2>2, <2>3, MovedKeeps DEF Snapshot, PC
<1> QED BY <1>1, <1>2, <1>3, <1>4, <1>5

LEMMA AnswerQuiet ==
  ASSUME IInv, NEW r \in Requests, FindAnswer(r) \/ (r \in Answers /\ BeginAnswer(r))
  PROVE  IInv'
<1>0. TypeOK /\ RequestInv(r)
  BY DEF IInv
<1>t. local[r] \in Local /\ snapshots \subseteq Verifications /\ fact \in Fact
  BY <1>0 DEF TypeOK
<1>k. r \in Answers => r \in Keyed
  BY RequestSets
<1>1. CASE FindAnswer(r)
  <2>1. CASE Taken(r)
    <3>1. Moves(r, "done", NoLocal) /\ pc' \in [Requests -> PC] /\ local' \in [Requests -> Local]
      BY <1>0, <1>1, <2>1, EndMoves DEF FindAnswer, GotoOrEnd
    <3> QED BY <1>1, <1>t, <3>1, NoLocalType, MovedKeeps DEF FindAnswer, PC, runVars
  <2>2. CASE ~Taken(r)
    <3>1. Moves(r, "beginAnswer", local[r]) /\ pc' \in [Requests -> PC]
          /\ local' \in [Requests -> Local]
      BY <1>0, <1>1, <2>2, GotoMoves DEF FindAnswer, GotoOrEnd, PC
    <3> QED BY <1>1, <1>t, <3>1, MovedKeeps DEF FindAnswer, PC, runVars
  <2> QED BY <2>1, <2>2
<1>2. CASE r \in Answers /\ BeginAnswer(r)
  <2>1. CASE Taken(r) \/ (Exists(fact) /\ ~ShouldOverride(fact.source, "SELF_DECLARED"))
    <3>1. Moves(r, "done", NoLocal) /\ pc' \in [Requests -> PC] /\ local' \in [Requests -> Local]
      BY <1>0, <1>2, <2>1, EndMoves DEF BeginAnswer
    <3> QED BY <1>2, <1>t, <3>1, NoLocalType, MovedKeeps DEF BeginAnswer, PC, runVars
  <2>2. CASE ~(Taken(r) \/ (Exists(fact) /\ ~ShouldOverride(fact.source, "SELF_DECLARED")))
    <3> DEFINE m == [NoLocal EXCEPT !.fact = fact]
    <3>2. m \in Local /\ m.fact = fact
      BY <1>0, MemoryType
    <3>3. GotoWith(r, "writeAnswer", m)
      BY <1>2, <2>2 DEF BeginAnswer
    <3> HIDE DEF m
    <3>4. Moves(r, "writeAnswer", m) /\ pc' \in [Requests -> PC] /\ local' \in [Requests -> Local]
      BY <1>0, <3>2, <3>3, GotoWithMoves DEF PC
    <3>5. Exists(fact) => fact.source = "SELF_DECLARED"
      BY <2>2, <1>t DEF ShouldOverride, Precedence, Fact, Sources
    <3> QED BY <1>2, <1>t, <1>k, <2>2, <3>2, <3>4, <3>5, MovedKeeps DEF BeginAnswer, PC, runVars
  <2> QED BY <2>1, <2>2
<1> QED BY <1>1, <1>2

LEMMA EditQuiet ==
  ASSUME IInv, NEW r \in Requests,
         FindForUpsert(r) \/ FindCurrent(r) \/ Reread(r) \/ Recalculate(r)
  PROVE  IInv'
<1>0. TypeOK /\ RequestInv(r)
  BY DEF IInv
<1>t. local[r] \in Local /\ snapshots \subseteq Verifications
  BY <1>0 DEF TypeOK
<1> DEFINE m == [NoLocal EXCEPT !.fact = fact]
<1>m. m \in Local /\ m.fact = fact
  BY <1>0, MemoryType
<1> HIDE DEF m
<1>1. CASE FindForUpsert(r)
  <2>1. PICK p \in {"archive", "create"} :
          GotoWith(r, p, m) /\ (p = "archive" => Exists(fact))
    BY <1>1 DEF FindForUpsert, m
  <2>2. Moves(r, p, m) /\ pc' \in [Requests -> PC] /\ local' \in [Requests -> Local]
    BY <1>0, <1>m, <2>1, GotoWithMoves DEF PC
  <2> QED BY <1>1, <1>t, <1>m, <2>1, <2>2, MovedKeeps DEF FindForUpsert, PC, runVars
<1>2. CASE FindCurrent(r)
  <2>1. CASE Current(fact)
    <3>1. PICK p \in {"softDelete", "reread"} : Goto(r, p)
      BY <1>2, <2>1 DEF FindCurrent, GotoOrEnd
    <3>2. Moves(r, p, local[r]) /\ pc' \in [Requests -> PC] /\ local' \in [Requests -> Local]
      BY <1>0, <3>1, GotoMoves DEF PC
    <3>3. Exists(fact)
      BY <2>1 DEF Current
    <3> QED BY <1>2, <1>t, <3>1, <3>2, <3>3, MovedKeeps DEF FindCurrent, PC, runVars
  <2>2. CASE ~Current(fact)
    <3>1. Moves(r, "done", NoLocal) /\ pc' \in [Requests -> PC] /\ local' \in [Requests -> Local]
      BY <1>0, <1>2, <2>2, EndMoves DEF FindCurrent, GotoOrEnd
    <3> QED BY <1>2, <1>t, <3>1, NoLocalType, MovedKeeps DEF FindCurrent, PC, runVars
  <2> QED BY <2>1, <2>2
<1>3. CASE Reread(r)
  <2>1. GotoWith(r, "archive", m)
    BY <1>3 DEF Reread, m
  <2>2. Moves(r, "archive", m) /\ pc' \in [Requests -> PC] /\ local' \in [Requests -> Local]
    BY <1>0, <1>m, <2>1, GotoWithMoves DEF PC
  <2>3. Exists(fact)
    BY <1>0, <1>3 DEF Reread, RequestInv
  <2> QED BY <1>3, <1>t, <1>m, <2>2, <2>3, MovedKeeps DEF Reread, PC, runVars
<1>4. CASE Recalculate(r)
  <2> DEFINE b == Current(fact)
             c == [NoLocal EXCEPT !.counted = b]
  <2>1. b \in BOOLEAN
    BY <1>0 DEF Current, Exists, TypeOK, Fact
  <2>2. GotoWith(r, "sync", c)
    BY <1>4 DEF Recalculate
  <2> HIDE DEF b
  <2>3. c \in Local /\ c.fact = NoFact
    BY <1>0, <2>1, MemoryType
  <2> HIDE DEF c
  <2>4. Moves(r, "sync", c) /\ pc' \in [Requests -> PC] /\ local' \in [Requests -> Local]
    BY <1>0, <2>2, <2>3, GotoWithMoves DEF PC
  <2>5. ~Exists(c.fact)
    BY <2>3, NoLocalType
  <2> QED BY <1>4, <1>t, <2>3, <2>4, <2>5, MovedKeeps DEF Recalculate, PC, runVars
<1> QED BY <1>1, <1>2, <1>3, <1>4

-------------------------------------------------------------------------------
(* Steps that write *)

\* The parts of the invariant a step that writes the fact has to look at.
LEMMA WriterKeeps ==
  ASSUME IInv, TypeOK', NEW r \in Requests, Leaves(r), UNCHANGED <<profile, profileVersion>>,
         writers' = writers \cup {r}, r \in Keyed => r \in accepted',
         reviews' \subseteq reviews \cup {r}, r \in reviews' => r \in accepted',
         ~HoldsKey(r)', pc'[r] # "saveVersion", RequestInv(r)', TrailInv', CompletenessTrails'
  PROVE  IInv'
<1>1. TypeOK /\ (\A q \in Requests : RequestInv(q)) /\ KeyInv /\ NumberInv
  BY DEF IInv
<1>2. \A q \in Requests : RequestInv(q)'
  <2>1. profile' \in [version : Nat, complete : BOOLEAN]
    BY DEF TypeOK
  <2> QED BY <1>1, <2>1, OthersKeep
<1>3. KeyInv'
  BY <1>1, KeysKeep
<1>4. NumberInv'
  BY <1>1, NumbersKeep
<1> QED BY <1>2, <1>3, <1>4 DEF IInv

LEMMA CommitKeeps ==
  ASSUME IInv, NEW r \in Requests, r \in Verifications, Commit(r)
  PROVE  IInv'
<1>1. TypeOK /\ RequestInv(r) /\ KeyInv /\ TrailInv /\ CompletenessTrails
  BY DEF IInv
<1>2. Moves(r, "done", NoLocal) /\ pc' \in [Requests -> PC] /\ local' \in [Requests -> Local]
  BY <1>1, EndMoves DEF Commit
<1> DEFINE l == local[r].fact
<1>3. /\ Exists(l) /\ HoldsKey(r) /\ r \notin accepted /\ r \notin reviews
      /\ Exists(fact) /\ l.version \in Nat
  BY <1>1 DEF Commit, RequestInv, KeyInv, HoldsKey, HoldsFact, TypeOK, Local, Fact
<1>4. /\ fact' = [fact EXCEPT !.version = l.version + 1, !.status = VerifiedStatus(local[r].review)]
      /\ writers' = writers \cup {r}
      /\ accepted' = accepted \cup {r}
      /\ versionRow' = [versionRow EXCEPT ![r] = l.version + 1]
      /\ reviews' = IF local[r].review THEN reviews \cup {r} ELSE reviews
      /\ UNCHANGED <<snapshots, archived, profile, profileVersion, unsynced>>
  BY DEF Commit, WriteFact, profileVars
<1> HIDE DEF l
<1>s. VerifiedStatus(local[r].review) \in Statuses
  BY DEF VerifiedStatus, Statuses
<1> DEFINE s == VerifiedStatus(local[r].review)
<1>v. fact' = [fact EXCEPT !.version = l.version + 1, !.status = s] /\ s \in Statuses
  BY <1>s, <1>4
<1>l. l.version + 1 \in Nat /\ l.version + 1 > 0 /\ fact \in Fact
  BY <1>1, <1>3 DEF TypeOK
<1> HIDE DEF s
<1>5. /\ fact' \in Fact /\ Exists(fact') /\ fact'.source = fact.source
      /\ fact'.value = fact.value /\ fact'.deleted = fact.deleted
      /\ fact'.status = s
  BY <1>v, <1>l DEF Fact, Exists
<1>6. versionRow' \in [Requests -> Nat] /\ versionRow'[r] > 0
      /\ \A q \in Requests : versionRow[q] > 0 => versionRow'[q] > 0
  BY <1>1, <1>3, <1>4 DEF TypeOK
<1>7. r \in Keyed
  BY RequestSets
<1>8. TypeOK'
  BY <1>1, <1>2, <1>4, <1>5, <1>6, <1>7 DEF TypeOK
<1>9. Ground => Ground'
  BY <1>3, <1>4 DEF Ground
<1>10. Leaves(r)
  <2>1. profile'.version >= profile.version
    BY <1>1, <1>4 DEF TypeOK
  <2> QED BY <1>2, <1>3, <1>4, <1>5, <1>7, <1>9, <2>1 DEF Leaves, Moves
<1>11. RequestInv(r)' /\ ~HoldsKey(r)' /\ pc'[r] # "saveVersion"
  BY <1>1, <1>2, <1>4, EndedKeeps DEF Moves, RequestInv, HoldsKey, HoldsFact
<1>12. TrailInv'
  <2>1. \A q \in writers : Audited(q) => Audited(q)'
    BY <1>1, <1>4, <1>6 DEF Audited, TypeOK
  <2>2. Audited(r)'
    BY <1>6 DEF Audited
  <2>3. fact'.status = "DOCUMENT_VERIFIED" => Ground'
    BY <1>3, <1>4, <1>5 DEF s, VerifiedStatus, Ground
  <2>4. fact'.source = "MANUAL" => fact'.value \notin Answers
    BY <1>1, <1>3, <1>5 DEF TrailInv
  <2> QED BY <1>1, <1>4, <1>5, <2>1, <2>2, <2>3, <2>4, TrailGrows
<1>13. CompletenessTrails'
  <2>1. (Current(fact') <=> Current(fact)) /\ Current(fact) \in BOOLEAN
    BY <1>1, <1>3, <1>5 DEF Current, Exists, TypeOK, Fact
  <2>2. pc[r] = "commit"
    BY DEF Commit
  <2> QED BY <1>1, <1>4, <1>10, <2>1, <2>2, CompletenessKeeps
<1>14. r \in accepted' /\ reviews' \subseteq reviews \cup {r}
  BY <1>4
<1> QED BY <1>4, <1>8, <1>10, <1>11, <1>12, <1>13, <1>14, WriterKeeps

LEMMA WriteAnswerKeeps ==
  ASSUME IInv, NEW r \in Requests, r \in Answers, WriteAnswer(r)
  PROVE  IInv'
<1>1. TypeOK /\ RequestInv(r) /\ KeyInv /\ TrailInv /\ CompletenessTrails
  BY DEF IInv
<1>2. Moves(r, "done", NoLocal) /\ pc' \in [Requests -> PC] /\ local' \in [Requests -> Local]
  BY <1>1, EndMoves DEF WriteAnswer
<1> DEFINE l == local[r].fact
<1>3. /\ pc[r] = "writeAnswer" /\ HoldsKey(r) /\ r \notin accepted /\ r \notin reviews
      /\ l.version \in Nat /\ fact \in Fact /\ r \in Keyed /\ l = local[r].fact
      /\ Exists(l) => Exists(fact) /\ fact.source = "SELF_DECLARED"
  BY <1>1, RequestSets DEF WriteAnswer, RequestInv, KeyInv, HoldsKey, TypeOK, Local, Fact
<1>4. UNCHANGED <<reviews, snapshots, archived, profile, profileVersion, unsynced>>
  BY DEF WriteAnswer, profileVars
<1>5. ASSUME NEW v \in Nat, v > 0, NEW f \in Fact, Exists(f), f.value = r,
             fact' = f, f.source = "SELF_DECLARED",
             f.status = fact.status \/ f.status = "SELF_DECLARED",
             Exists(fact) => fact.source = "SELF_DECLARED" /\ f.deleted = fact.deleted,
             writers' = writers \cup {r}, accepted' = accepted \cup {r},
             versionRow' = [versionRow EXCEPT ![r] = v]
      PROVE  IInv'
  <2>1. versionRow' \in [Requests -> Nat] /\ versionRow'[r] > 0
        /\ \A q \in Requests : versionRow[q] > 0 => versionRow'[q] > 0
    BY <1>1, <1>5 DEF TypeOK
  <2>2. TypeOK'
    BY <1>1, <1>2, <1>3, <1>4, <1>5, <2>1 DEF TypeOK
  <2>3. Ground => Ground'
    BY <1>3, <1>4, <1>5 DEF Ground
  <2>4. Leaves(r)
    <3>1. profile'.version >= profile.version
      BY <1>1, <1>4 DEF TypeOK
    <3>2. Exists(fact) => Exists(fact') /\ fact'.source = fact.source
      BY <1>5
    <3> QED BY <1>2, <1>3, <1>4, <1>5, <2>3, <3>1, <3>2 DEF Leaves, Moves
  <2>5. RequestInv(r)' /\ ~HoldsKey(r)' /\ pc'[r] # "saveVersion"
    BY <1>1, <1>2, <1>4, EndedKeeps DEF Moves, RequestInv, HoldsKey, HoldsFact
  <2>6. TrailInv'
    <3>1. \A q \in writers : Audited(q) => Audited(q)'
      BY <1>1, <1>4, <2>1 DEF Audited, TypeOK
    <3>2. Audited(r)'
      BY <2>1 DEF Audited
    <3>3. fact'.status = "DOCUMENT_VERIFIED" => Ground'
      BY <1>1, <1>5, <2>3 DEF TrailInv, VerifiedHasGround, Ground
    <3>4. fact'.source = "MANUAL" => fact'.value \notin Answers
      BY <1>5
    <3>5. Exists(fact')
      BY <1>5
    <3> QED BY <1>1, <1>5, <3>1, <3>2, <3>3, <3>4, <3>5, TrailGrows
  <2>7. CompletenessTrails'
    BY <1>5 DEF CompletenessTrails
  <2> QED BY <1>3, <1>4, <1>5, <2>2, <2>4, <2>5, <2>6, <2>7, WriterKeeps
<1>6. CASE Exists(l) /\ accepted' # accepted
  <2>3. l.version + 1 \in Nat /\ l.version + 1 > 0
    BY <1>3
  <2>5. PICK v \in Nat : v = l.version + 1
    BY <2>3
  <2> DEFINE f == [fact EXCEPT !.version = v, !.value = r, !.source = "SELF_DECLARED"]
  <2>1. fact' = f /\ writers' = writers \cup {r} /\ accepted' = accepted \cup {r}
        /\ versionRow' = [versionRow EXCEPT ![r] = v]
    BY <1>6, <2>5 DEF WriteAnswer, WriteFact
  <2>0. v > 0 /\ fact \in Fact
    BY <1>3, <2>3, <2>5
  <2>2. f \in Fact /\ Exists(f) /\ f.value = r /\ f.source = "SELF_DECLARED"
        /\ f.status = fact.status /\ f.deleted = fact.deleted
    BY <2>0 DEF Fact, Sources, Exists
  <2>4. PICK g \in Fact : g = f
    BY <2>2
  <2> HIDE DEF f, l
  <2>6. /\ v > 0 /\ Exists(g) /\ g.value = r /\ fact' = g /\ g.source = "SELF_DECLARED"
        /\ g.status = fact.status
        /\ Exists(fact) => fact.source = "SELF_DECLARED" /\ g.deleted = fact.deleted
        /\ versionRow' = [versionRow EXCEPT ![r] = v]
    BY <1>3, <1>6, <2>0, <2>1, <2>2, <2>4
  <2> QED BY <1>5, <2>1, <2>6
<1>7. CASE ~Exists(l) /\ Creatable
  <2> DEFINE f == NewFact(r, "SELF_DECLARED", "SELF_DECLARED")
  <2>1. fact' = f /\ writers' = writers \cup {r} /\ accepted' = accepted \cup {r}
        /\ versionRow' = [versionRow EXCEPT ![r] = 1]
    BY <1>7 DEF WriteAnswer, WriteFact
  <2>2. f \in Fact /\ Exists(f) /\ f.value = r /\ f.source = "SELF_DECLARED"
        /\ f.status = "SELF_DECLARED"
    BY DEF NewFact, Fact, Sources, Statuses, Exists
  <2>3. ~Exists(fact)
    BY <1>7 DEF Creatable
  <2>6. PICK v \in Nat : v = 1
    OBVIOUS
  <2>4. PICK g \in Fact : g = f
    BY <2>2
  <2> HIDE DEF f, l
  <2>5. /\ Exists(g) /\ g.value = r /\ fact' = g /\ g.source = "SELF_DECLARED"
        /\ g.status = "SELF_DECLARED"
        /\ Exists(fact) => fact.source = "SELF_DECLARED" /\ g.deleted = fact.deleted
        /\ v > 0 /\ versionRow' = [versionRow EXCEPT ![r] = v]
    BY <2>1, <2>2, <2>3, <2>4, <2>6
  <2> QED BY <1>5, <2>1, <2>5
<1>8. CASE ~Exists(l) /\ ~Creatable
  <2>1. UNCHANGED <<factVars, accepted>>
    BY <1>8 DEF WriteAnswer
  <2>2. snapshots' \subseteq Verifications
    BY <1>1, <1>4 DEF TypeOK
  <2> QED BY <1>2, <1>3, <1>4, <2>1, <2>2, NoLocalType, MovedKeeps DEF PC, profileVars
<1>9. Exists(l) => accepted' # accepted
  BY <1>3 DEF WriteAnswer
<1> QED BY <1>6, <1>7, <1>8, <1>9

\* upsertFact, updateFact and softDelete, and the creation of a row.
LEMMA EditKeeps ==
  ASSUME IInv, NEW r \in Requests, r \notin Keyed, pc[r] # "done", NEW f \in Fact, Exists(f),
         fact' = f, Exists(fact) => f.source = fact.source,
         writers' = writers \cup {r}, UNCHANGED <<versionRow, runVars, archived, profileVars>>,
         r \in Deletions \/ Audited(r) \/ ~Exists(fact),
         f.status = "DOCUMENT_VERIFIED" => Ground',
         f.source = "MANUAL" => f.value \notin Answers,
         \/ Goto(r, "recalculate")
         \/ End(r) /\ (Current(f) <=> Current(fact)) /\ pc[r] \notin {"recalculate", "sync"}
  PROVE  IInv'
<1>1. TypeOK /\ RequestInv(r) /\ KeyInv /\ TrailInv /\ CompletenessTrails
  BY DEF IInv
<1>2. UNCHANGED <<accepted, reviews, snapshots, archived, profile, profileVersion, unsynced>>
  BY DEF runVars, profileVars
<1>3. PICK p \in {"recalculate", "done"}, m \in {local[r], NoLocal} :
        /\ Moves(r, p, m) /\ pc' \in [Requests -> PC] /\ local' \in [Requests -> Local]
        /\ p = "done" => (Current(f) <=> Current(fact))
                          /\ pc[r] \notin {"recalculate", "sync"}
  <2>1. CASE Goto(r, "recalculate")
    BY <1>1, <2>1, GotoMoves DEF PC
  <2>2. CASE End(r) /\ (Current(f) <=> Current(fact)) /\ pc[r] \notin {"recalculate", "sync"}
    BY <1>1, <2>2, EndMoves
  <2> QED BY <2>1, <2>2
<1>4. TypeOK'
  BY <1>1, <1>2, <1>3 DEF TypeOK
<1>5. Ground => Ground'
  BY <1>2 DEF Ground
<1>6. Leaves(r)
  <2>1. profile'.version >= profile.version
    BY <1>1, <1>2 DEF TypeOK
  <2> QED BY <1>2, <1>3, <1>5, <2>1 DEF Leaves, Moves
<1>7. r \notin accepted /\ r \notin accepted' /\ r \notin reviews'
  BY <1>1, <1>2 DEF TypeOK, KeyInv
<1>8. RequestInv(r)' /\ ~HoldsKey(r)' /\ pc'[r] # "saveVersion"
  <2>1. pc'[r] = p /\ local'[r] = m
    BY <1>3 DEF Moves
  <2>2. Exists(m.fact) => Exists(f) /\ f.source = m.fact.source
    BY <1>1, NoLocalType DEF RequestInv
  <2>3. m.fact.status = "DOCUMENT_VERIFIED" => Ground'
    BY <1>1, <1>5, NoLocalType DEF RequestInv
  <2>4. profileVersion'[r] <= profile'.version
    BY <1>1, <1>2 DEF RequestInv
  <2> QED BY <1>7, <2>1, <2>2, <2>3, <2>4 DEF RequestInv, HoldsKey, HoldsFact, Exists
<1>9. TrailInv'
  <2>1. \A q \in Requests : Audited(q)' <=> Audited(q)
    BY DEF Audited
  <2>2. writers \subseteq Requests
    BY <1>1 DEF TypeOK
  <2> QED BY <1>1, <2>1, <2>2, TrailGrows
<1>10. CompletenessTrails'
  <2>1. CASE p = "recalculate"
    BY <1>3, <2>1 DEF Moves, CompletenessTrails
  <2>2. CASE p = "done"
    <3>1. Current(fact) \in BOOLEAN
      BY <1>1 DEF Current, Exists, TypeOK, Fact
    <3> QED BY <1>1, <1>2, <1>3, <1>6, <2>2, <3>1, CompletenessKeeps
  <2> QED BY <2>1, <2>2
<1> QED BY <1>2, <1>4, <1>6, <1>7, <1>8, <1>9, <1>10, WriterKeeps

LEMMA OverwriteKeeps ==
  ASSUME IInv, NEW r \in Requests, r \in Editors, Overwrite(r)
  PROVE  IInv'
<1>1. TypeOK /\ RequestInv(r) /\ TrailInv
  BY DEF IInv
<1>2. /\ pc[r] = "overwrite" /\ Exists(local[r].fact) /\ archived[r] > 0 /\ fact \in Fact
      /\ Exists(fact) /\ local[r].fact.status \in Statuses
  BY <1>1 DEF Overwrite, RequestInv, TypeOK, Local, Fact
<1> DEFINE s == EditedStatus(r)
           d == fact.deleted /\ r \notin Additions
<1>3. s \in Statuses /\ d \in BOOLEAN
  BY <1>2, CitizenFactAssumption DEF EditedStatus, Fact
<1>4. fact' = [fact EXCEPT !.version = @ + 1, !.value = r, !.status = s, !.deleted = d]
      /\ writers' = writers \cup {r}
  BY DEF Overwrite, WriteFact
<1>5. s = "DOCUMENT_VERIFIED" => Ground'
  <2>1. Submitted[r] = "DOCUMENT_VERIFIED" => Ground'
    BY <1>4 DEF Ground
  <2>2. Ground => Ground'
    BY <1>4 DEF Overwrite, runVars, Ground
  <2> QED BY <1>1, <2>1, <2>2 DEF EditedStatus, RequestInv
<1>6. r \notin Additions => d = fact.deleted
  BY <1>2 DEF Fact
<1> HIDE DEF s, d
<1>v. PICK v \in Nat : v = fact.version + 1 /\ v > 0
  BY <1>2 DEF Fact, Exists
<1>w. fact' = [fact EXCEPT !.version = v, !.value = r, !.status = s, !.deleted = d]
  BY <1>2, <1>4, <1>v DEF Fact
<1>7. PICK f \in Fact : f = [fact EXCEPT !.version = v, !.value = r, !.status = s, !.deleted = d]
  BY <1>2, <1>3 DEF Fact
<1>8. /\ fact' = f /\ Exists(f) /\ f.source = fact.source /\ f.value = r /\ f.status = s
      /\ f.deleted = d
  BY <1>2, <1>v, <1>w, <1>7 DEF Fact, Exists
<1>9. r \notin Keyed /\ r \notin Answers /\ Audited(r)
  BY <1>2, RequestSets DEF Audited
<1>10. \/ Goto(r, "recalculate")
       \/ End(r) /\ (Current(f) <=> Current(fact)) /\ pc[r] \notin {"recalculate", "sync"}
  <2>1. CASE r \in Reconciliations
    <3>1. r \notin Additions
      BY <2>1, CitizenFactAssumption
    <3> QED BY <1>2, <1>6, <1>8, <2>1, <3>1 DEF Overwrite, GotoOrEnd, Current
  <2>2. CASE r \notin Reconciliations
    BY <2>2 DEF Overwrite, GotoOrEnd
  <2> QED BY <2>1, <2>2
<1>11. UNCHANGED <<versionRow, runVars, archived, profileVars>>
  BY DEF Overwrite
<1>12. pc[r] # "done"
  BY <1>2
<1> QED BY <1>4, <1>5, <1>8, <1>9, <1>10, <1>11, <1>12, EditKeeps

LEMMA CreateFactKeeps ==
  ASSUME IInv, NEW r \in Requests, r \in Additions, CreateFact(r)
  PROVE  IInv'
<1>1. TypeOK /\ RequestInv(r) /\ snapshots \subseteq Verifications
  BY DEF IInv, TypeOK
<1>2. CASE ~Creatable
  <2>1. Moves(r, "done", NoLocal) /\ pc' \in [Requests -> PC] /\ local' \in [Requests -> Local]
    BY <1>1, <1>2, EndMoves DEF CreateFact, GotoOrEnd
  <2> QED BY <1>1, <1>2, <2>1, NoLocalType, MovedKeeps
          DEF CreateFact, PC, factVars, runVars
<1>3. CASE Creatable
  <2>1. local[r].fact.status \in Statuses /\ r \in Editors
    BY <1>1, RequestSets DEF TypeOK, Local, Fact
  <2> DEFINE s == EditedStatus(r)
  <2>2. s \in Statuses
    BY <2>1, CitizenFactAssumption DEF EditedStatus
  <2>3. fact' = NewFact(r, "MANUAL", s) /\ writers' = writers \cup {r}
    BY <1>3 DEF CreateFact, WriteFact
  <2>4. s = "DOCUMENT_VERIFIED" => Ground'
    <3>1. Submitted[r] = "DOCUMENT_VERIFIED" => Ground'
      BY <2>1, <2>3 DEF Ground
    <3>2. Ground => Ground'
      BY <2>3 DEF CreateFact, runVars, Ground
    <3> QED BY <1>1, <3>1, <3>2 DEF EditedStatus, RequestInv
  <2> HIDE DEF s
  <2>5. PICK f \in Fact : f = NewFact(r, "MANUAL", s)
    BY <2>2 DEF NewFact, Fact, Sources
  <2>6. fact' = f /\ Exists(f) /\ f.value = r /\ f.status = s
    BY <2>3, <2>5 DEF NewFact, Exists
  <2>7. ~Exists(fact)
    BY <1>3 DEF Creatable
  <2>8. r \notin Keyed /\ r \notin Answers
    BY RequestSets
  <2>9. Goto(r, "recalculate") /\ pc[r] # "done"
        /\ UNCHANGED <<versionRow, runVars, archived, profileVars>>
    BY <1>3 DEF CreateFact, GotoOrEnd
  <2> QED BY <2>3, <2>4, <2>6, <2>7, <2>8, <2>9, EditKeeps
<1> QED BY <1>2, <1>3

LEMMA SoftDeleteKeeps ==
  ASSUME IInv, NEW r \in Requests, r \in Deletions, SoftDelete(r)
  PROVE  IInv'
<1>1. TypeOK /\ RequestInv(r) /\ TrailInv
  BY DEF IInv
<1>2. fact \in Fact /\ Exists(fact) /\ pc[r] = "softDelete"
  BY <1>1 DEF SoftDelete, RequestInv, TypeOK
<1>3. fact' = [fact EXCEPT !.deleted = TRUE] /\ writers' = writers \cup {r}
  BY DEF SoftDelete, WriteFact
<1>4. PICK f \in Fact : f = [fact EXCEPT !.deleted = TRUE]
  BY <1>2 DEF Fact
<1>5. /\ fact' = f /\ Exists(f) /\ f.source = fact.source /\ f.value = fact.value
      /\ f.status = fact.status
  BY <1>2, <1>3, <1>4 DEF Fact, Exists
<1>6. f.status = "DOCUMENT_VERIFIED" => Ground'
  <2>1. Ground => Ground'
    BY <1>3 DEF SoftDelete, runVars, Ground
  <2> QED BY <1>1, <1>5, <2>1 DEF TrailInv, VerifiedHasGround, Ground
<1>7. f.source = "MANUAL" => f.value \notin Answers
  BY <1>1, <1>2, <1>5 DEF TrailInv
<1>8. r \notin Keyed
  BY RequestSets
<1>9. Goto(r, "recalculate") /\ pc[r] # "done"
      /\ UNCHANGED <<versionRow, runVars, archived, profileVars>>
  BY <1>2 DEF SoftDelete
<1> QED BY <1>3, <1>5, <1>6, <1>7, <1>8, <1>9, EditKeeps

\* The row is archived before it is overwritten.
LEMMA ArchiveKeeps ==
  ASSUME IInv, NEW r \in Requests, r \notin Keyed, Archive(r)
  PROVE  IInv'
<1>1. /\ TypeOK /\ (\A q \in Requests : RequestInv(q)) /\ KeyInv /\ TrailInv /\ NumberInv
      /\ CompletenessTrails
  BY DEF IInv
<1>2. /\ pc[r] = "archive" /\ Exists(local[r].fact) /\ local[r].fact.version \in Nat
      /\ local[r] \in Local
  BY <1>1 DEF Archive, RequestInv, TypeOK, Local, Fact
<1>3. Moves(r, "overwrite", local[r]) /\ pc' \in [Requests -> PC] /\ local' \in [Requests -> Local]
  BY <1>1, GotoMoves DEF Archive, PC
<1>4. /\ archived' \in [Requests -> Nat] /\ archived'[r] > 0
      /\ \A q \in Requests \ {r} : archived'[q] = archived[q]
  BY <1>1, <1>2 DEF Archive, TypeOK, Exists
<1>5. UNCHANGED <<fact, versionRow, writers, accepted, reviews, snapshots,
                  profile, profileVersion, unsynced>>
  BY DEF Archive, factVars, runVars, profileVars
<1>6. TypeOK'
  BY <1>1, <1>3, <1>4, <1>5 DEF TypeOK
<1>7. Ground => Ground'
  BY <1>5 DEF Ground
<1>8. Leaves(r)
  <2>1. profile'.version >= profile.version
    BY <1>1, <1>5 DEF TypeOK
  <2> QED BY <1>3, <1>4, <1>5, <1>7, <2>1 DEF Leaves, Moves
<1>9. RequestInv(r)'
  <2>1. r \notin accepted'
    BY <1>1, <1>5 DEF TypeOK
  <2>2. profileVersion'[r] <= profile'.version
    BY <1>1, <1>5 DEF RequestInv
  <2>3. /\ Exists(local[r].fact) => Exists(fact) /\ fact.source = local[r].fact.source
        /\ local[r].fact.status = "DOCUMENT_VERIFIED" => Ground
    BY <1>1 DEF RequestInv
  <2> QED BY <1>2, <1>3, <1>4, <1>5, <1>7, <2>1, <2>2, <2>3 DEF RequestInv, Moves, Exists
<1>10. \A q \in Requests : RequestInv(q)'
  BY <1>1, <1>6, <1>8, <1>9, OthersKeep DEF TypeOK
<1>11. KeyInv'
  <2>1. r \notin reviews'
    BY <1>1, <1>5 DEF TypeOK, KeyInv
  <2> QED BY <1>1, <1>5, <1>8, <2>1, KeysKeep
<1>12. TrailInv'
  <2>1. \A q \in writers : Audited(q) => Audited(q)'
    BY <1>1, <1>4, <1>5 DEF Audited, TypeOK
  <2> QED BY <1>1, <1>5, <1>7, <2>1, TrailKeeps
<1>13. NumberInv'
  BY <1>1, <1>3, <1>5, <1>8, NumbersKeep DEF Moves
<1>14. CompletenessTrails'
  <2>1. (Current(fact') <=> Current(fact)) /\ Current(fact) \in BOOLEAN
    BY <1>1, <1>5 DEF Current, Exists, TypeOK, Fact
  <2> QED BY <1>1, <1>2, <1>5, <1>8, <2>1, CompletenessKeeps
<1> QED BY <1>6, <1>10, <1>11, <1>12, <1>13, <1>14 DEF IInv

-------------------------------------------------------------------------------
(* The profile *)

\* The parts of the invariant a step that leaves the fact alone has to look at.
LEMMA ProfileKeeps ==
  ASSUME IInv, NEW r \in Requests, NEW p \in PC, NEW m \in Local, Moves(r, p, m),
         p \in {"done", "saveVersion"}, TypeOK',
         UNCHANGED <<factVars, runVars, archived>>,
         \A q \in Requests \ {r} : profileVersion'[q] = profileVersion[q],
         profile'.version >= profile.version,
         RequestInv(r)', NumberInv', CompletenessTrails'
  PROVE  IInv'
<1>1. TypeOK /\ (\A q \in Requests : RequestInv(q)) /\ KeyInv /\ TrailInv
  BY DEF IInv
<1>2. UNCHANGED <<fact, versionRow, writers, accepted, reviews, archived>>
  BY DEF factVars, runVars
<1>3. Ground => Ground'
  BY <1>2 DEF Ground
<1>4. Leaves(r)
  BY <1>2, <1>3 DEF Leaves, Moves
<1>5. \A q \in Requests : RequestInv(q)'
  BY <1>1, <1>4, OthersKeep DEF TypeOK
<1>6. KeyInv'
  <2>1. ~HoldsKey(r)'
    BY DEF Moves, HoldsKey, HoldsFact
  <2>2. (r \in writers' \cap Keyed => r \in accepted') /\ (r \in reviews' => r \in accepted')
    BY <1>1, <1>2 DEF KeyInv
  <2> QED BY <1>1, <1>2, <1>4, <2>1, <2>2, KeysKeep
<1>7. TrailInv'
  <2>1. \A q \in writers : Audited(q) => Audited(q)'
    BY <1>2 DEF Audited
  <2> QED BY <1>1, <1>2, <1>3, <2>1, TrailKeeps
<1> QED BY <1>5, <1>6, <1>7 DEF IInv

LEMMA SyncKeeps ==
  ASSUME IInv, NEW r \in Requests, Sync(r)
  PROVE  IInv'
<1>1. /\ TypeOK /\ RequestInv(r) /\ NumberInv /\ \A q \in Requests : RequestInv(q)
      /\ r \notin accepted
  BY DEF IInv, RequestInv, Sync
<1>2. /\ profile.version \in Nat /\ fact \in Fact /\ local[r].counted \in BOOLEAN
      /\ \A q \in Requests : profileVersion[q] \in Nat /\ local[q].version \in Nat
  BY <1>1 DEF TypeOK, Local
<1>3. PICK v \in Nat : v = profile.version + 1 /\ v > profile.version
  BY <1>2
<1>4. profile' = [version |-> v, complete |-> local[r].counted]
  BY <1>3 DEF Sync
<1>5. profile'.version = v /\ profile'.complete = local[r].counted
      /\ profile' \in [version : Nat, complete : BOOLEAN]
  BY <1>2, <1>4
<1>6. UNCHANGED <<factVars, runVars, archived, profileVersion>>
      /\ unsynced' = IF local[r].counted = Current(fact) THEN unsynced ELSE unsynced \cup {r}
  BY DEF Sync
<1> DEFINE n == [NoLocal EXCEPT !.version = v]
<1>7. n \in Local /\ n.fact = NoFact /\ n.version = v
  BY NumberType
<1>8. (r \in Deletions /\ End(r)) \/ (r \notin Deletions /\ GotoWith(r, "saveVersion", n))
  BY <1>3 DEF Sync
<1> HIDE DEF n
<1>9. PICK p \in {"done", "saveVersion"}, m \in {NoLocal, n} :
        /\ Moves(r, p, m) /\ pc' \in [Requests -> PC] /\ local' \in [Requests -> Local]
        /\ p = "saveVersion" => m = n
        /\ p = "done" => m = NoLocal
  BY <1>1, <1>7, <1>8, GotoWithMoves, EndMoves DEF PC
<1>10. TypeOK'
  BY <1>1, <1>5, <1>6, <1>9 DEF TypeOK, factVars, runVars
<1>11. pc'[r] = p /\ local'[r] = m
  BY <1>9 DEF Moves
<1>12. RequestInv(r)'
  <2>1. profileVersion'[r] <= profile'.version
    BY <1>1, <1>2, <1>3, <1>5, <1>6 DEF RequestInv
  <2>2. ~Exists(m.fact) /\ m.fact.status # "DOCUMENT_VERIFIED"
    BY <1>7, <1>9, NoLocalType
  <2>3. r \notin accepted'
    BY <1>1, <1>6 DEF runVars
  <2>4. p = "saveVersion" => m.version > 0 /\ m.version <= profile'.version
    BY <1>2, <1>3, <1>5, <1>7, <1>9
  <2> QED BY <1>11, <2>1, <2>2, <2>3, <2>4 DEF RequestInv, Exists, HoldsKey, HoldsFact
<1>13. NumberInv'
  <2>1. ProfileVersionsUnique'
    BY <1>1, <1>6 DEF NumberInv, ProfileVersionsUnique
  <2>2. \A q \in Requests : profileVersion'[q] # v
    BY <1>1, <1>2, <1>3, <1>6 DEF RequestInv
  <2>3. \A q \in Requests \ {r} : pc'[q] = pc[q] /\ local'[q] = local[q]
    BY <1>9 DEF Moves
  <2>4. \A q \in Requests \ {r} : pc[q] = "saveVersion" => local[q].version # v
    BY <1>1, <1>2, <1>3 DEF RequestInv
  <2>5. pc'[r] = "saveVersion" => local'[r].version = v
    BY <1>7, <1>9, <1>11
  <2> QED BY <1>1, <1>6, <2>1, <2>2, <2>3, <2>4, <2>5 DEF NumberInv
<1>14. CompletenessTrails'
  <2>1. Current(fact') <=> Current(fact)
    BY <1>6 DEF factVars
  <2>2. local[r].counted # Current(fact) => unsynced' # {}
    BY <1>6
  <2>3. fact' = fact
    BY <1>6 DEF factVars
  <2> QED BY <1>5, <2>2, <2>3 DEF CompletenessTrails, Current, Exists
<1>15. p \in PC /\ m \in Local
  BY <1>7, <1>9, NoLocalType DEF PC
<1>16. profile'.version >= profile.version
  BY <1>2, <1>3, <1>5
<1> QED BY <1>6, <1>9, <1>10, <1>12, <1>13, <1>14, <1>15, <1>16, ProfileKeeps

LEMMA SaveVersionKeeps ==
  ASSUME IInv, NEW r \in Requests, SaveVersion(r)
  PROVE  IInv'
<1>1. TypeOK /\ RequestInv(r) /\ NumberInv /\ CompletenessTrails
  BY DEF IInv
<1>2. /\ pc[r] = "saveVersion" /\ local[r].version \in Nat /\ local[r].version > 0
      /\ local[r].version <= profile.version /\ profile.version \in Nat
  BY <1>1 DEF SaveVersion, RequestInv, TypeOK, Local
<1>3. Moves(r, "done", NoLocal) /\ pc' \in [Requests -> PC] /\ local' \in [Requests -> Local]
  BY <1>1, EndMoves DEF SaveVersion
<1>4. /\ profileVersion' \in [Requests -> Nat] /\ profileVersion'[r] = local[r].version
      /\ \A q \in Requests \ {r} : profileVersion'[q] = profileVersion[q]
  BY <1>1, <1>2 DEF SaveVersion, TypeOK
<1>5. UNCHANGED <<factVars, runVars, archived, profile, unsynced>>
  BY DEF SaveVersion
<1>6. TypeOK'
  BY <1>1, <1>3, <1>4, <1>5 DEF TypeOK, factVars, runVars
<1>7. RequestInv(r)'
  BY <1>2, <1>3, <1>4, <1>5, EndedKeeps DEF Moves
<1>8. NumberInv'
  BY <1>1, <1>2, <1>3, <1>4 DEF NumberInv, ProfileVersionsUnique, Moves
<1>9. CompletenessTrails'
  BY <1>1, <1>2, <1>3, <1>5 DEF CompletenessTrails, Current, Exists, Moves, factVars, runVars
<1>10. profile'.version >= profile.version
  BY <1>2, <1>5
<1> QED BY <1>3, <1>4, <1>5, <1>6, <1>7, <1>8, <1>9, <1>10, NoLocalType, ProfileKeeps DEF PC

LEMMA FailKeeps ==
  ASSUME IInv, NEW r \in Requests, Fail(r)
  PROVE  IInv'
<1>1. TypeOK /\ RequestInv(r) /\ NumberInv /\ CompletenessTrails
  BY DEF IInv
<1>2. Moves(r, "done", NoLocal) /\ pc' \in [Requests -> PC] /\ local' \in [Requests -> Local]
  BY <1>1, EndMoves DEF Fail
<1>3. UNCHANGED <<factVars, runVars, archived, profile, profileVersion>>
      /\ unsynced' = IF pc[r] \in {"recalculate", "sync"} THEN unsynced \cup {r} ELSE unsynced
  BY DEF Fail
<1>4. TypeOK'
  BY <1>1, <1>2, <1>3 DEF TypeOK, factVars, runVars
<1>5. RequestInv(r)'
  BY <1>1, <1>2, <1>3, EndedKeeps DEF Moves, RequestInv
<1>6. NumberInv'
  BY <1>1, <1>2, <1>3 DEF NumberInv, ProfileVersionsUnique, Moves
<1>7. CompletenessTrails'
  BY <1>1, <1>2, <1>3 DEF CompletenessTrails, Current, Exists, Moves, factVars, runVars
<1>8. profile'.version >= profile.version
  BY <1>1, <1>3 DEF TypeOK
<1> QED BY <1>2, <1>3, <1>4, <1>5, <1>6, <1>7, <1>8, NoLocalType, ProfileKeeps DEF PC

-------------------------------------------------------------------------------
(* The invariant is inductive *)

LEMMA InvInit == Init => IInv
<1> SUFFICES ASSUME Init PROVE IInv
  OBVIOUS
<1>1. \A r \in Requests : pc[r] = "idle" /\ local[r] = NoLocal /\ profileVersion[r] = 0
  BY DEF Init
<1>2. TypeOK
  BY NoLocalType DEF Init, TypeOK, NoFact, Fact, Sources, Statuses, PC
<1>3. \A r \in Requests : RequestInv(r)
  BY <1>1, NoLocalType DEF Init, RequestInv, HoldsKey, HoldsFact
<1>4. KeyInv /\ TrailInv
  BY <1>1, RequestSets
     DEF Init, KeyInv, TrailInv, HoldsKey, HoldsFact, OnlyCreationUnaudited,
         VerifiedHasGround, NoFact, Exists
<1>5. NumberInv
  BY <1>1 DEF NumberInv, ProfileVersionsUnique
<1>6. CompletenessTrails
  <2>1. ~Exists(fact) /\ profile.complete = FALSE
    BY DEF Init, Exists, NoFact
  <2>2. Current(fact) = FALSE
    BY <2>1 DEF Current
  <2> QED BY <2>1, <2>2 DEF CompletenessTrails
<1> QED BY <1>2, <1>3, <1>4, <1>5, <1>6 DEF IInv

LEMMA InvStep == IInv /\ [Next]_vars => IInv'
<1> SUFFICES ASSUME IInv, [Next]_vars PROVE IInv'
  OBVIOUS
<1>1. ASSUME NEW r \in Requests, Arrive(r) PROVE IInv'
  BY <1>1, VerificationQuiet, AnswerQuiet, EditQuiet DEF Arrive
<1>2. ASSUME NEW r \in Requests, Step(r) PROVE IInv'
  <2>1. CASE RunVerification(r)
    BY <2>1, VerificationQuiet, CommitKeeps DEF RunVerification
  <2>2. CASE ProcessAnswer(r)
    BY <2>2, AnswerQuiet, WriteAnswerKeeps DEF ProcessAnswer
  <2>3. CASE AddFact(r) \/ EditFact(r) \/ ReconcileConflict(r)
    <3>1. r \in Editors /\ r \notin Keyed
      BY <2>3, RequestSets DEF AddFact, EditFact, ReconcileConflict
    <3>2. \/ (r \in Additions /\ CreateFact(r)) \/ Reread(r) \/ Archive(r) \/ Overwrite(r)
          \/ Recalculate(r) \/ Sync(r) \/ SaveVersion(r)
      BY <2>3 DEF AddFact, EditFact, ReconcileConflict, RecalculateAndSync
    <3> QED BY <3>1, <3>2, CreateFactKeeps, EditQuiet, ArchiveKeeps, OverwriteKeeps,
               SyncKeeps, SaveVersionKeeps
  <2>4. CASE DeleteFact(r)
    BY <2>4, SoftDeleteKeeps, EditQuiet, SyncKeeps DEF DeleteFact, RecalculateAndSync
  <2> QED BY <1>2, <2>1, <2>2, <2>3, <2>4 DEF Step
<1>3. ASSUME NEW r \in Requests, Fail(r) PROVE IInv'
  BY <1>3, FailKeeps
<1>4. CASE UNCHANGED vars
  <2>1. UNCHANGED <<fact, versionRow, writers, accepted, reviews, snapshots, archived,
                    profile, profileVersion, unsynced, pc, local>>
    BY <1>4 DEF vars, factVars, runVars, profileVars
  <2>2. TypeOK'
    BY <2>1 DEF IInv, TypeOK
  <2>3. \A q \in Requests : RequestInv(q)'
    BY <2>1 DEF IInv, RequestInv, Exists, Ground, HoldsKey, HoldsFact, Taken, SameKey
  <2>4. KeyInv'
    BY <2>1 DEF IInv, KeyInv, HoldsKey, HoldsFact, SameKey
  <2>5. TrailInv'
    BY <2>1 DEF IInv, TrailInv, Exists, OnlyCreationUnaudited, Audited, VerifiedHasGround
  <2>6. NumberInv' /\ CompletenessTrails'
    BY <2>1 DEF IInv, NumberInv, ProfileVersionsUnique, CompletenessTrails, Current, Exists
  <2> QED BY <2>2, <2>3, <2>4, <2>5, <2>6 DEF IInv
<1> QED BY <1>1, <1>2, <1>3, <1>4 DEF Next

-------------------------------------------------------------------------------
(* Theorems *)

\* The invariant above holds in every reachable state, for any requests and keys.
THEOREM CitizenFactInvariance == Spec => []IInv
BY InvInit, InvStep, PTL DEF Spec

\* The types of the rows and of what the requests remember.
THEOREM CitizenFactTypeCorrectness == Spec => []TypeOK
<1>1. IInv => TypeOK
  BY DEF IInv
<1> QED BY <1>1, CitizenFactInvariance, PTL

\* Of all verifications, or answers, that carry one key at most one writes the fact.
THEOREM KeyIsUsedOnce == Spec => []OnceForKey
<1>1. IInv => OnceForKey
  BY DEF IInv, KeyInv, OnceForKey
<1> QED BY <1>1, CitizenFactInvariance, PTL

\* The fact can be traced to those who wrote it and to who made it verified.
THEOREM FactIsTraceable == Spec => []FactHasTrail
<1>1. IInv => FactHasTrail
  BY DEF IInv, TrailInv, FactHasTrail
<1> QED BY <1>1, CitizenFactInvariance, PTL

\* Two edits never give the profile one version number, and its status follows its facts
\* as far as requests that overlap and fail half-way let it.
THEOREM ProfileFollowsFacts == Spec => []ProfileConsistent
<1>1. IInv => ProfileConsistent
  BY DEF IInv, NumberInv, ProfileConsistent
<1> QED BY <1>1, CitizenFactInvariance, PTL

\* A fact of the profile never becomes an onboarding answer.
THEOREM ManualStaysManual == Spec => ManualKept
<1> DEFINE Kept == Exists(fact) /\ fact.source = "MANUAL" =>
             fact'.source = "MANUAL" /\ (fact' # fact => fact'.value \notin Answers)
<1>1. IInv /\ [Next]_vars => [Kept]_vars
  <2> SUFFICES ASSUME IInv, [Next]_vars, Exists(fact), fact.source = "MANUAL"
               PROVE  fact'.source = "MANUAL" /\ (fact' # fact => fact'.value \notin Answers)
    OBVIOUS
  <2>1. IInv'
    BY InvStep
  <2>2. TypeOK /\ fact \in Fact /\ \A q \in Requests : RequestInv(q)
    BY DEF IInv, TypeOK
  <2>3. ASSUME NEW r \in Requests, Commit(r) \/ WriteAnswer(r) \/ Overwrite(r)
                                 \/ CreateFact(r) \/ SoftDelete(r)
        PROVE  fact'.source = fact.source /\ (fact' = fact \/ r \in writers')
    <3>1. CASE Commit(r)
      BY <2>2, <3>1 DEF Commit, WriteFact, Fact
    <3>2. CASE WriteAnswer(r)
      <4>1. ~Creatable /\ pc[r] = "writeAnswer" /\ RequestInv(r)
        BY <2>2, <3>2 DEF WriteAnswer, Creatable
      <4>2. ~Exists(local[r].fact)
        BY <4>1 DEF RequestInv
      <4> QED BY <3>2, <4>1, <4>2 DEF WriteAnswer, factVars
    <3>3. CASE Overwrite(r)
      BY <2>2, <3>3 DEF Overwrite, WriteFact, Fact
    <3>4. CASE CreateFact(r)
      BY <3>4 DEF CreateFact, Creatable
    <3>5. CASE SoftDelete(r)
      BY <2>2, <3>5 DEF SoftDelete, WriteFact, Fact
    <3> QED BY <2>3, <3>1, <3>2, <3>3, <3>4, <3>5
  <2>4. ASSUME NEW r \in Requests, Arrive(r) \/ Step(r) \/ Fail(r)
        PROVE  fact'.source = fact.source /\ (fact' = fact \/ r \in writers')
    <3>1. CASE Arrive(r)
      BY <3>1 DEF Arrive, FindRun, FindAnswer, FindForUpsert, FindCurrent, factVars
    <3>2. CASE Step(r)
      <4>1. \/ ReadFact(r) \/ Begin(r) \/ UpdateFact(r) \/ Snapshot(r) \/ BeginAnswer(r)
            \/ Reread(r) \/ Archive(r) \/ Recalculate(r) \/ Sync(r) \/ SaveVersion(r)
            \/ Commit(r) \/ WriteAnswer(r) \/ Overwrite(r) \/ CreateFact(r) \/ SoftDelete(r)
        BY <3>2 DEF Step, RunVerification, ProcessAnswer, AddFact, EditFact,
                    ReconcileConflict, DeleteFact, RecalculateAndSync
      <4>2. CASE \/ ReadFact(r) \/ Begin(r) \/ UpdateFact(r) \/ Snapshot(r) \/ BeginAnswer(r)
        BY <4>2 DEF ReadFact, Begin, UpdateFact, Snapshot, BeginAnswer, factVars
      <4>3. CASE \/ Reread(r) \/ Archive(r) \/ Recalculate(r) \/ Sync(r) \/ SaveVersion(r)
        BY <4>3 DEF Reread, Archive, Recalculate, Sync, SaveVersion, factVars
      <4> QED BY <2>3, <4>1, <4>2, <4>3
    <3>3. CASE Fail(r)
      BY <3>3 DEF Fail, factVars
    <3> QED BY <2>4, <3>1, <3>2, <3>3
  <2>5. fact'.source = fact.source /\ (fact' = fact \/ writers' # {})
    BY <2>4 DEF Next, vars, factVars
  <2>6. fact' # fact => Exists(fact')
    BY <2>1, <2>5 DEF IInv, TrailInv
  <2> QED BY <2>1, <2>5, <2>6 DEF IInv, TrailInv
<1> QED BY <1>1, CitizenFactInvariance, PTL DEF Spec, ManualKept

\* Whoever waits, waits in the end for a transaction that waits for nobody.
THEOREM NobodyWaitsForever == Spec => []SomeoneGoesOn
<1>1. SomeoneGoesOn
  <2> SUFFICES ASSUME NEW r \in Requests, UnderWay(r), Waits(r)
               PROVE  \E q \in Requests : UnderWay(q) /\ ~Waits(q)
    BY DEF SomeoneGoesOn
  <2>1. ASSUME NEW q \in Requests, HoldsFact(q) PROVE UnderWay(q) /\ ~Waits(q)
    BY <2>1 DEF HoldsFact, UnderWay, Waits
  <2>2. CASE FactFree
    <3>1. PICK q \in Keyed : HoldsKey(q)
      BY <2>2 DEF Waits, KeyFree
    <3>2. q \in Requests
      BY <3>1, RequestSets
    <3>3. UnderWay(q) /\ ~Waits(q)
      BY <2>2, <3>1 DEF HoldsKey, HoldsFact, UnderWay, Waits
    <3> QED BY <3>2, <3>3
  <2>3. CASE ~FactFree
    <3>1. PICK q \in Verifications : HoldsFact(q)
      BY <2>3 DEF FactFree
    <3>2. q \in Requests
      BY <3>1, RequestSets
    <3> QED BY <2>1, <3>1, <3>2
  <2> QED BY <2>2, <2>3
<1> QED BY <1>1, PTL

================================================================================
