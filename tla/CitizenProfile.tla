------------------------------ MODULE CitizenProfile ------------------------------
(* The profile of one citizen: its row, its facts as far as they depend on one       *)
(* another, and the registry that says which values an attribute takes, which ones   *)
(* every profile needs and which need a parent.  A request reads before it writes,   *)
(* in calls of their own, and nothing holds the parent in between.                   *)
(* Two writers ask no registry: processAnswer, and reconcileConflict as its endpoint *)
(* would run.  CitizenFact says what the requests do to one row, its versions and    *)
(* history, and which source overrides which; here an answer so refused just breaks. *)
(* Left out: facts under keys the registry does not know, which only an answer stores.*)
EXTENDS Integers, FiniteSets

CONSTANTS
    ProfileRequests,    \* calls of the controller
    Attributes,         \* keys of the registry
    Registry,           \* key |-> [mandatory |-> , boolean |-> , accepts |-> , parent |-> , condition |-> ]
    RawValues,          \* what a citizen may submit
    Falsy,              \* raw values a boolean attribute takes for false
    Null,               \* a submitted null, or no value
    Unset,              \* no row, no parent, nothing read
    Unchecked           \* nobody looked at the parent

Statuses == {"CREATED", "IN_PROGRESS", "PARTIALLY_COMPLETED", "COMPLETED"}
ProfileRow == [status : Statuses, percentage : 0..100, version : Nat]
Stored == RawValues \cup {"true", "false"}
\* writes: history, how often the value was written.
FactRow == [value : Stored, current : BOOLEAN, writes : Nat]
\* "first answer": an answer that found no profile.
Kinds == {"create", "add", "update", "delete", "answer", "first answer", "reconcile"}

ASSUME ProfileAssumption ==
    /\ Attributes # {} /\ IsFiniteSet(Attributes)
    /\ Null \in RawValues
    /\ Unset \notin Attributes \cup RawValues \cup Nat \cup ProfileRow \cup FactRow \cup Kinds
    /\ Unchecked \notin Nat \cup {Unset}
    /\ Falsy \subseteq RawValues
    /\ \A a \in Attributes : Registry[a].parent \in (Attributes \ {a}) \cup {Unset}

VARIABLES
    profile,            \* the CitizenProfile row, or Unset
    profileFacts,       \* the row of each attribute, or Unset
    request,            \* where each call is, and what it remembers
    ground,             \* history: writes of the parent each fact was checked against,
                        \* Unset without such a check, or Unchecked
    everComplete        \* history: all mandatory facts were current at one moment

profileVars == <<profile, profileFacts, request, ground, everComplete>>

Request == [step : {"idle", "create profile", "validate", "look up", "write", "delete",
                    "count", "sync", "done", "failed"},
            kind : Kinds \cup {Unset}, attribute : Attributes \cup {Unset},
            raw : RawValues \cup {Unset}, value : Stored \cup {Unset},
            checked : Nat \cup {Unset, Unchecked}, found : BOOLEAN, counted : SUBSET Attributes]
IdleRequest == [step |-> "idle", kind |-> Unset, attribute |-> Unset, raw |-> Unset,
                value |-> Unset, checked |-> Unset, found |-> FALSE, counted |-> {}]

-----------------------------------------------------------------------------
(* The registry *)

Current(a) == profileFacts[a] # Unset /\ profileFacts[a].current
CurrentFacts == {a \in Attributes : Current(a)}
Mandatory == {a \in Attributes : Registry[a].mandatory}

\* Booleans by the truth of what came, so that the text 'false' is true.
Typed(a, raw) ==
    IF Registry[a].boolean THEN (IF raw \in Falsy THEN "false" ELSE "true") ELSE raw

\* A slip: the parent need only be there.
ParentPresent(a) == Registry[a].parent = Unset \/ Current(Registry[a].parent)

\* The parent is current and, when the attribute has a condition, has that value.
ParentHolds(a) ==
    \/ Registry[a].parent = Unset
    \/ /\ Current(Registry[a].parent)
       /\ Registry[a].condition \in {Unset, profileFacts[Registry[a].parent].value}

\* Null is taken, without a look at the parent, for what is not mandatory.
Admissible(a, raw) ==
    IF raw = Null THEN ~Registry[a].mandatory
                  ELSE ParentHolds(a) /\ (Registry[a].boolean \/ raw \in Registry[a].accepts)

Percentage(facts) ==
    IF Mandatory = {} THEN 100
    ELSE (100 * Cardinality(Mandatory \cap facts)) \div Cardinality(Mandatory)

StatusOf(facts) ==
    CASE facts = {}              -> "CREATED"
      [] Mandatory \subseteq facts -> "COMPLETED"
      [] OTHER -> IF Percentage(facts) >= 50 THEN "PARTIALLY_COMPLETED" ELSE "IN_PROGRESS"

-----------------------------------------------------------------------------
(* The calls *)

Keep(r, memory) == request' = [request EXCEPT ![r] = memory]
\* What a call that checks nothing is going to write.
KeepUnchecked(r, kind, a, value, found) ==
    Keep(r, [IdleRequest EXCEPT !.kind = kind, !.attribute = a, !.value = value,
                    !.checked = Unchecked, !.found = found, !.step = "write"])
\* Nothing before is needed any more.
Goto(r, step) == Keep(r, [IdleRequest EXCEPT !.step = step])

\* What each call finds first; without a profile all but three kinds of them end here.
\* An answer is stored as it came, and its transaction creates the profile it misses.
Start(r) ==
    /\ request[r].step = "idle"
    /\ \/ /\ profile = Unset
          /\ Keep(r, [IdleRequest EXCEPT !.kind = "create", !.step = "create profile"])
       \/ /\ profile # Unset
          /\ Goto(r, "count")
       \/ \E a \in Attributes, raw \in RawValues :
             Keep(r, [IdleRequest EXCEPT !.kind = "add", !.attribute = a, !.raw = raw,
                             !.step = IF profile = Unset THEN "create profile" ELSE "validate"])
       \/ \E a \in CurrentFacts, raw \in RawValues :
             Keep(r, [IdleRequest EXCEPT !.kind = "update", !.attribute = a, !.raw = raw,
                             !.step = "validate"])
       \/ \E a \in CurrentFacts :
             Keep(r, [IdleRequest EXCEPT !.kind = "delete", !.attribute = a, !.step = "delete"])
       \/ \E a \in Attributes, value \in Stored \ {Null} :
             KeepUnchecked(r, IF profile = Unset THEN "first answer" ELSE "answer",
                           a, value, profileFacts[a] # Unset)
       \/ \E a \in CurrentFacts, value \in RawValues :
             KeepUnchecked(r, "reconcile", a, value, TRUE)
    /\ UNCHANGED <<profile, profileFacts, ground, everComplete>>

NewProfile == [status |-> "CREATED", percentage |-> 0, version |-> 1]

\* An addition looks for the profile once more before it creates one, and the unique key
\* refuses the second of two that found none.
CreateProfile(r) ==
    /\ request[r].step = "create profile"
    /\ \/ /\ profile = Unset
          /\ profile' = NewProfile
       \/ /\ profile # Unset
          /\ UNCHANGED profile
    /\ \/ /\ request[r].kind = "add"
          /\ Keep(r, [request[r] EXCEPT !.step = "validate"])
       \/ /\ request[r].kind = "create" /\ profile = Unset
          /\ Goto(r, "done")
       \/ /\ profile # Unset
          /\ Goto(r, "failed")
    /\ UNCHANGED <<profileFacts, ground, everComplete>>

Validate(r) ==
    /\ request[r].step = "validate"
    /\ LET a == request[r].attribute
           raw == request[r].raw
       IN  IF Admissible(a, raw)
           THEN Keep(r, [request[r] EXCEPT
                   !.step = "look up",
                   !.raw = Unset,
                   !.value = IF raw = Null THEN Null ELSE Typed(a, raw),
                   !.checked = IF raw = Null \/ Registry[a].parent = Unset THEN Unset
                               ELSE profileFacts[Registry[a].parent].writes])
           ELSE Goto(r, "failed")
    /\ UNCHANGED <<profile, profileFacts, ground, everComplete>>

\* The row, deleted or not.
LookUp(r) ==
    /\ request[r].step = "look up"
    /\ Keep(r, [request[r] EXCEPT !.step = "write",
                                      !.found = profileFacts[request[r].attribute] # Unset])
    /\ UNCHANGED <<profile, profileFacts, ground, everComplete>>

\* Only an addition makes a deleted fact current again.  A reconciliation writes the
\* columns of numbers and texts: a boolean stays, and is read first.
RowAfter(r, row) ==
    IF ~request[r].found THEN [value |-> request[r].value, current |-> TRUE, writes |-> 1]
    ELSE [value   |-> IF request[r].kind = "reconcile" /\ row.value \in {"true", "false"}
                      THEN row.value ELSE request[r].value,
          current |-> row.current \/ request[r].kind = "add",
          writes  |-> row.writes + 1]

\* The unique keys refuse a row, or a profile, that appeared since it was looked for.
Refused(r) ==
    \/ ~request[r].found /\ profileFacts[request[r].attribute] # Unset
    \/ request[r].kind = "first answer" /\ profile # Unset

\* Additions and updates count the facts afterwards, answers and reconciliations do not.
Write(r) ==
    /\ request[r].step = "write"
    /\ LET a == request[r].attribute
       IN  IF Refused(r)
           THEN Goto(r, "failed") /\ UNCHANGED <<profile, profileFacts, ground>>
           ELSE /\ profileFacts' = [profileFacts EXCEPT ![a] = RowAfter(r, @)]
                /\ ground' = [ground EXCEPT ![a] = request[r].checked]
                /\ profile' = IF request[r].kind = "first answer" THEN NewProfile ELSE profile
                /\ Goto(r, IF request[r].kind \in {"add", "update"} THEN "count" ELSE "done")
    /\ everComplete' = (everComplete \/ Mandatory \subseteq CurrentFacts')

\* Nobody looks at the facts that depend on it.
Delete(r) ==
    /\ request[r].step = "delete"
    /\ profileFacts' = [profileFacts EXCEPT ![request[r].attribute].current = FALSE]
    /\ Goto(r, "count")
    /\ UNCHANGED <<profile, ground, everComplete>>

Count(r) ==
    /\ request[r].step = "count"
    /\ Keep(r, [request[r] EXCEPT !.step = "sync", !.counted = CurrentFacts])
    /\ UNCHANGED <<profile, profileFacts, ground, everComplete>>

Sync(r) ==
    /\ request[r].step = "sync"
    /\ profile' = [status |-> StatusOf(request[r].counted),
                   percentage |-> Percentage(request[r].counted),
                   version |-> profile.version + 1]
    /\ Goto(r, "done")
    /\ UNCHANGED <<profileFacts, ground, everComplete>>

\* A call is rejected or the process dies between two of its queries.
Break(r) ==
    /\ request[r].step \notin {"idle", "done", "failed"}
    /\ Goto(r, "failed")
    /\ UNCHANGED <<profile, profileFacts, ground, everComplete>>

-----------------------------------------------------------------------------
ProfileInit ==
    /\ profile = Unset
    /\ profileFacts = [a \in Attributes |-> Unset]
    /\ request = [r \in ProfileRequests |-> IdleRequest]
    /\ ground = [a \in Attributes |-> Unset]
    /\ everComplete = (Mandatory = {})

ProfileNext ==
    \E r \in ProfileRequests :
        \/ Start(r)
        \/ CreateProfile(r)
        \/ Validate(r)
        \/ LookUp(r)
        \/ Write(r)
        \/ Delete(r)
        \/ Count(r)
        \/ Sync(r)
        \/ Break(r)

ProfileSpec == ProfileInit /\ [][ProfileNext]_profileVars

-----------------------------------------------------------------------------
(* Properties *)

ProfileTypeOK ==
    /\ profile \in ProfileRow \cup {Unset}
    /\ profileFacts \in [Attributes -> FactRow \cup {Unset}]
    /\ request \in [ProfileRequests -> Request]
    /\ ground \in [Attributes -> Nat \cup {Unset, Unchecked}]
    /\ everComplete \in BOOLEAN

\* The parent of a fact a, unless it was written since the check, satisfies it.
GroundHolds(a, parent) ==
    parent # Unset
    /\ (parent.current /\ parent.writes = ground[a] =>
            Registry[a].condition \in {Unset, parent.value})

\* A fact that needs a parent has one, unless its last value came from an answer or a
\* reconciliation; only a write to the parent by anyone, or its deletion, after the fact
\* was checked can leave it without the value it needs.
DependentsGrounded ==
    \A a \in CurrentFacts :
        /\ Registry[a].parent # Unset
        /\ profileFacts[a].value # Null
        /\ ground[a] # Unchecked
        => GroundHolds(a, profileFacts[Registry[a].parent])

\* A profile is called COMPLETED, and 100 percent, only after all the mandatory facts were
\* current together, however additions, deletions and counts overlap.
CompletedWasComplete ==
    profile # Unset /\ profile.status = "COMPLETED" => profile.percentage = 100 /\ everComplete

\* What a profile says of itself was true when it was found out: every dependent fact the
\* registry was asked about was checked against the parent there is, although answers and
\* reconciliations overwrite both without a check, and its status counts facts there were.
\* (AttributeValidationEngine.validateAndFormat, CitizenCompletenessEngine.calculateCompleteness)
ProfileHonest == DependentsGrounded /\ CompletedWasComplete
===============================================================================
