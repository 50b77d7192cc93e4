---------------------------- MODULE NotificationRouting ----------------------------
(* How a notice of a changed decision is routed: whether the policy and the quiet  *)
(* hours of the citizen let it out, on which channels, and with which text.  The   *)
(* handler reads policy, preferences and template with separate queries, while the *)
(* citizen may change preferences and officers add policy and template versions.   *)
(* One citizen; the delivery that follows is in NotificationCenter.                 *)
EXTENDS Integers

CONSTANTS
    Notices,            \* events accepted for the citizen
    Concern,            \* what an event says: [material |-> , policyVersion |-> ]
    DayMinutes,         \* the minutes of a day
    Morning,            \* the minute a notice held back in quiet hours is due
    PolicyVersions,     \* numbers of the versions of the policy
    Policies,           \* the contents a version may have: [allowed |-> , fallback |-> ]
    TemplateVersions,
    Texts,              \* what a template may hold: [placeholders |-> , long |-> ]
    Parameters,         \* the names the handler gives values for
    NoRow               \* no row, or no value in a row

Minutes == 0..(DayMinutes - 1)

Channels == {"IN_APP", "EMAIL", "SMS", "PUSH"}

ASSUME RoutingAssumption ==
    /\ DayMinutes \in Nat \ {0}
    /\ Morning \in Nat
    /\ 1 \in TemplateVersions
    /\ Concern \in [Notices -> [material : BOOLEAN, policyVersion : PolicyVersions]]
    /\ NoRow \notin Policies
    /\ NoRow \notin Texts
    /\ NoRow \notin Minutes
    /\ NoRow \notin [text : Texts, version : TemplateVersions]
    /\ Policies \subseteq [allowed : SUBSET Channels, fallback : SUBSET Channels]

PreferenceStatus == {"ENABLED", "DISABLED", "NOT_CONFIGURED"}
Preference == [status : PreferenceStatus, quietStart : Minutes \cup {NoRow},
               quietEnd : Minutes \cup {NoRow}]
NoPreference == [status |-> "NOT_CONFIGURED", quietStart |-> NoRow, quietEnd |-> NoRow]

RoutingSteps == {"received", "policy read", "resolving", "rendered", "stored",
                 "immaterial", "held back", "failed"}

VARIABLES
    minute,             \* the time of the day
    preferences,        \* the citizen's row for each channel, or NoPreference
    policies,           \* version |-> its row, or NoRow
    templates,          \* version of the one template in use |-> its row, or NoRow
    step,               \* where the handler of each notice is
    policyRead,         \* the policy row it read, or NoRow
    pending,            \* candidate channels whose preference it has not read
    resolved,           \* channels it will use
    rendering,          \* what it rendered, or NoRow
    dueAt,              \* when a suppressed notice says it is due again, or NoRow
    onDuring            \* channels that were not disabled at some moment since it began

routingVars == <<minute, preferences, policies, templates, step, policyRead, pending,
                 resolved, rendering, dueAt, onDuring>>

On(prefs) == {c \in Channels : prefs[c].status # "DISABLED"}

-----------------------------------------------------------------------------
(* Decisions. *)

\* A start after the end spans midnight; equal bounds are never active.
QuietHours(start, end, now) ==
    IF start > end THEN now >= start \/ now < end
                   ELSE now >= start /\ now < end

Quiet(preference) ==
    /\ preference.quietStart # NoRow
    /\ preference.quietEnd # NoRow
    /\ QuietHours(preference.quietStart, preference.quietEnd, minute)

\* The handler gives every notice this priority.
Priority == "MEDIUM"

DefaultPolicy == [allowed  |-> {"IN_APP", "PUSH", "EMAIL"},
                  fallback |-> {"IN_APP", "PUSH", "EMAIL", "SMS"}]

\* A version without a row is treated as the default policy.
InForce(row) == IF row = NoRow THEN DefaultPolicy ELSE row

CandidateChannels(policy) ==
    IF Priority = "CRITICAL" THEN Channels
    ELSE IF policy.allowed # {} THEN policy.allowed ELSE policy.fallback

\* What a template renders to, when every placeholder has a value and the text fits.
Renders(row) == row # NoRow /\ row.placeholders \subseteq Parameters /\ ~row.long
Rendered(row, version) == [text |-> row, version |-> version]

-----------------------------------------------------------------------------
(* The handler, read by read. *)

ReadPolicy(n) ==
    /\ step[n] = "received"
    /\ policyRead' = [policyRead EXCEPT ![n] = policies[Concern[n].policyVersion]]
    /\ onDuring' = [onDuring EXCEPT ![n] = On(preferences)]
    /\ step' = [step EXCEPT ![n] = IF Concern[n].material THEN "policy read" ELSE "immaterial"]
    /\ UNCHANGED <<minute, preferences, policies, templates, pending, resolved, rendering, dueAt>>

\* Only the quiet hours of the IN_APP row count, for every channel.
CheckQuietHours(n) ==
    /\ step[n] = "policy read"
    /\ IF Quiet(preferences["IN_APP"]) /\ Priority # "CRITICAL"
       THEN /\ step' = [step EXCEPT ![n] = "held back"]
            /\ dueAt' = [dueAt EXCEPT ![n] = Morning]
            /\ UNCHANGED pending
       ELSE /\ step' = [step EXCEPT ![n] = "resolving"]
            /\ pending' = [pending EXCEPT ![n] = CandidateChannels(InForce(policyRead[n]))]
            /\ UNCHANGED dueAt
    /\ UNCHANGED <<minute, preferences, policies, templates, policyRead, resolved, rendering, onDuring>>

ReadChannel(n) ==
    /\ step[n] = "resolving"
    /\ \E c \in pending[n] :
        /\ pending' = [pending EXCEPT ![n] = @ \ {c}]
        /\ resolved' = [resolved EXCEPT ![n] =
              IF preferences[c].status # "DISABLED" THEN @ \cup {c} ELSE @]
    /\ UNCHANGED <<minute, preferences, policies, templates, step, policyRead, rendering, dueAt, onDuring>>

\* IN_APP is added last, whatever policy and preferences say.
RenderNotice(n) ==
    /\ step[n] = "resolving"
    /\ pending[n] = {}
    /\ resolved' = [resolved EXCEPT ![n] = @ \cup {"IN_APP"}]
    /\ IF Renders(templates[1])
       THEN /\ rendering' = [rendering EXCEPT ![n] = Rendered(templates[1], 1)]
            /\ step' = [step EXCEPT ![n] = "rendered"]
       ELSE /\ step' = [step EXCEPT ![n] = "failed"]
            /\ UNCHANGED rendering
    /\ UNCHANGED <<minute, preferences, policies, templates, policyRead, pending, dueAt, onDuring>>

\* One transaction: the notification, its action item and a delivery per channel.
StoreNotice(n) ==
    /\ step[n] = "rendered"
    /\ step' = [step EXCEPT ![n] = "stored"]
    /\ UNCHANGED <<minute, preferences, policies, templates, policyRead, pending, resolved, rendering, dueAt, onDuring>>

-----------------------------------------------------------------------------
(* The citizen, the officers and the clock. *)

\* A value that is not given leaves the one of the row.
Given(value, old) == IF value = NoRow THEN old ELSE value

UpdatePreference(c) ==
    /\ \E status \in PreferenceStatus \ {"NOT_CONFIGURED"},
          start \in Minutes \cup {NoRow}, end \in Minutes \cup {NoRow} :
        preferences' = [preferences EXCEPT ![c] =
            [status     |-> status,
             quietStart |-> Given(start, @.quietStart),
             quietEnd   |-> Given(end, @.quietEnd)]]
    /\ onDuring' = [n \in Notices |-> onDuring[n] \cup On(preferences')]
    /\ UNCHANGED <<minute, policies, templates, step, policyRead, pending, resolved, rendering, dueAt>>

\* A slip: a version is written over.
Overwritten(rows, version, row) == [rows EXCEPT ![version] = row]

\* A version that exists is refused by the unique key.
Added(rows, version, row) == IF rows[version] = NoRow THEN [rows EXCEPT ![version] = row] ELSE rows

CreatePolicyVersion(v) ==
    /\ \E policy \in Policies : policies' = Added(policies, v, policy)
    /\ UNCHANGED <<minute, preferences, templates, step, policyRead, pending, resolved, rendering, dueAt, onDuring>>

CreateTemplateVersion(v) ==
    /\ \E text \in Texts : templates' = Added(templates, v, text)
    /\ UNCHANGED <<minute, preferences, policies, step, policyRead, pending, resolved, rendering, dueAt, onDuring>>

TimePasses ==
    /\ minute' = (minute + 1) % DayMinutes
    /\ UNCHANGED <<preferences, policies, templates, step, policyRead, pending, resolved, rendering, dueAt, onDuring>>

-----------------------------------------------------------------------------
RoutingInit ==
    /\ minute = 0
    /\ preferences = [c \in Channels |-> NoPreference]
    /\ policies = [v \in PolicyVersions |-> NoRow]
    /\ templates = [v \in TemplateVersions |-> NoRow]
    /\ step = [n \in Notices |-> "received"]
    /\ policyRead = [n \in Notices |-> NoRow]
    /\ pending = [n \in Notices |-> {}]
    /\ resolved = [n \in Notices |-> {}]
    /\ rendering = [n \in Notices |-> NoRow]
    /\ dueAt = [n \in Notices |-> NoRow]
    /\ onDuring = [n \in Notices |-> {}]

Handle(n) ==
    \/ ReadPolicy(n)
    \/ CheckQuietHours(n)
    \/ ReadChannel(n)
    \/ RenderNotice(n)
    \/ StoreNotice(n)

Officer ==
    \/ \E v \in PolicyVersions : CreatePolicyVersion(v)
    \/ \E v \in TemplateVersions : CreateTemplateVersion(v)

RoutingNext ==
    \/ \E n \in Notices : Handle(n)
    \/ \E c \in Channels : UpdatePreference(c)
    \/ Officer
    \/ TimePasses

RoutingSpec == RoutingInit /\ [][RoutingNext]_routingVars

-----------------------------------------------------------------------------
(* Properties. *)

RoutingTypeOK ==
    /\ minute \in Minutes
    /\ preferences \in [Channels -> Preference]
    /\ policies \in [PolicyVersions -> Policies \cup {NoRow}]
    /\ templates \in [TemplateVersions -> Texts \cup {NoRow}]
    /\ step \in [Notices -> RoutingSteps]
    /\ policyRead \in [Notices -> Policies \cup {NoRow}]
    /\ pending \in [Notices -> SUBSET Channels]
    /\ resolved \in [Notices -> SUBSET Channels]
    /\ rendering \in [Notices -> [text : Texts, version : TemplateVersions] \cup {NoRow}]
    /\ dueAt \in [Notices -> {Morning, NoRow}]
    /\ onDuring \in [Notices -> SUBSET Channels]

\* The row of the policy version a notification names: a row that was read is still
\* the row of that version, and a notification without one used the default policy.
PolicyAsRead(n) == policyRead[n] \in {NoRow, policies[Concern[n].policyVersion]}

\* Rendering the stored template version again gives what was stored.
ReplayVerifies(n) ==
    /\ rendering[n] # NoRow
    /\ LET row == templates[rendering[n].version]
       IN  Renders(row) /\ Rendered(row, rendering[n].version) = rendering[n]

ChannelsChosen(n) ==
    /\ "IN_APP" \in resolved[n]
    /\ resolved[n] \ {"IN_APP"} \subseteq
          onDuring[n] \cap CandidateChannels(InForce(policyRead[n]))

\* A notification, once stored, is delivered in the application and otherwise only on
\* channels that the policy version it names allows and that the citizen had not turned
\* off before the event came and kept off; and it can be replayed to the same text, no
\* matter what citizens and officers change in between and later.
\* (ChannelResolutionService.resolveChannels, NotificationReplayService.replayNotification)
RoutedAsChosen ==
    \A n \in Notices :
        step[n] = "stored" => PolicyAsRead(n) /\ ChannelsChosen(n) /\ ReplayVerifies(n)

===============================================================================
