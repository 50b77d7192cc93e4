-------------------------- MODULE NotificationCenter --------------------------
(* Notifications and action items of one citizen about one re-evaluation:      *)
(*   services/notification-orchestrator.service.ts  handleDecisionChangeEvent, *)
(*                                                  markNotificationAsRead     *)
(*   services/notification-ingestion.service.ts     processIngestion           *)
(*   services/notification-policy.service.ts        evaluatePolicy             *)
(*   services/supersession.service.ts               processSupersession        *)
(*   services/action-center.service.ts              transitionState            *)
(*   repositories/prisma-notification.repository.ts                            *)
(*                                                                            *)
(* A handler is one running call of handleDecisionChangeEvent, a session one   *)
(* request of the citizen.  Every database call of a handler is a step of its  *)
(* own; the creation of a notification with its action item and deliveries is  *)
(* one transaction in the code and one step here.  Handing a delivery to the   *)
(* outbox is one step: what happens then is NotificationOutbox.                *)
(*                                                                            *)
(* Events are material ones of the citizen's: an immaterial event is returned  *)
(* by processIngestion before anything is written.                            *)
EXTENDS Integers, Sequences, FiniteSets, FiniteSetsExt

CONSTANTS
    Events,         \* domain events; each names its notification and action item
    NoEvent,        \* no event: the null of supersededByNotificationId
    Handlers,       \* concurrent calls of handleDecisionChangeEvent
    Sessions,       \* concurrent requests of the citizen
    Channels,       \* channels a notification is delivered on
    MaxHandlings,   \* bound: how often events are handed to the module in all
    MaxReadAgain,   \* bound: a READ notification of this version is not marked again
    MaxItemVersion, \* bound: versions the citizen can raise an action item to
    MaxCrashes      \* bound: events of which a handling dies

ASSUME CenterAssumption ==
    /\ NoEvent \notin Events
    /\ MaxHandlings \in Nat
    /\ MaxReadAgain \in Nat
    /\ MaxItemVersion \in Nat
    /\ MaxCrashes \in Nat

VARIABLES
    notification,   \* Notification rows, by source event
    item,           \* CitizenActionItem rows, by source event
    pending,        \* channels whose NotificationDelivery is PENDING, by event
    suppressed,     \* events with a NotificationSuppression row
    pc,             \* where each handler is
    event,          \* its argument
    todo,           \* its local `active`, the part still to process
    obsolete,       \* the notification of `active` it is working on
    itemSeen,       \* its local `actionItem`
    request,        \* the running request of each session
    created,        \* history: events in the order their notifications were created
    handed,         \* history: how often each channel was handed to the outbox
    handlings,      \* history: how often each event was handed to the module
    refused,        \* history: events of which a handling ended in a conflict
    crashed         \* history: events of which a handling died

rowVars     == <<notification, item, pending, suppressed>>
handlerVars == <<pc, event, todo, obsolete, itemSeen>>
historyVars == <<created, handed, handlings, refused, crashed>>
vars == <<rowVars, handlerVars, request, historyVars>>

-------------------------------------------------------------------------------
(* Types *)

\* RENDERED ... EXPIRED of the enumeration are written by no code.
NotificationStatus == {"ABSENT", "CREATED", "READ", "SUPERSEDED"}

ActionItemStatus == {"PENDING", "VIEWED", "ACKNOWLEDGED", "ACTION_REQUIRED", "DISMISSAL_REQUESTED",
                     "COMPLETED", "DISMISSED", "EXPIRED", "SUPERSEDED"}
Immune == {"COMPLETED", "DISMISSED", "EXPIRED", "SUPERSEDED"}

\* The transitions the routes of action-center.controller.ts ask for.
Targets == {"ACKNOWLEDGED", "COMPLETED", "DISMISSED"}

NotificationRow == [status : NotificationStatus, version : Nat,
                    supersededBy : Events \cup {NoEvent}]
ItemRow == [status : ActionItemStatus, version : Nat]

Absent == [status |-> "ABSENT", version |-> 0, supersededBy |-> NoEvent]

\* Variant: an action item starts in a status of the legacy enumeration.
NewItemOpen == [status |-> "OPEN", version |-> 1]

\* The rows the transaction creates, with what the schema fills in.
NewItem == [status |-> "PENDING", version |-> 1]
NewNotification == [status |-> "CREATED", version |-> 1, supersededBy |-> NoEvent]
NoRequest == [event |-> NoEvent, target |-> "COMPLETED", version |-> 0]

PC == {"idle", "policy", "findActive", "supersede", "findItem", "updateItem"}

Init ==
    /\ notification = [e \in Events |-> Absent]
    /\ item = [e \in Events |-> NewItem]
    /\ pending = [e \in Events |-> {}]
    /\ suppressed = {}
    /\ pc = [h \in Handlers |-> "idle"]
    /\ event = [h \in Handlers |-> NoEvent]
    /\ todo = [h \in Handlers |-> {}]
    /\ obsolete = [h \in Handlers |-> NoEvent]
    /\ itemSeen = [h \in Handlers |-> NewItem]
    /\ request = [s \in Sessions |-> NoRequest]
    /\ created = <<>>
    /\ handed = [e \in Events |-> [c \in Channels |-> 0]]
    /\ handlings = [e \in Events |-> 0]
    /\ refused = {}
    /\ crashed = {}

-------------------------------------------------------------------------------
(* Helpers *)

Exists(e) == notification[e].status # "ABSENT"

\* Variant: deduplication by re-evaluation instead of by event.
AnythingProcessed(e) == \E f \in Events : Exists(f)

\* findNotificationBySourceEvent.
AlreadyProcessed(e) == Exists(e)

\* Variant: no unique key.
NoUniqueKey(e) == FALSE

\* The unique key (sourceEventId, notificationType, userId) in the transaction.
UniqueViolation(e) == Exists(e)

\* findActiveNotificationsForSupersession, with the versions it reads.
ActiveNotifications ==
    {[event |-> e, version |-> notification[e].version] :
        e \in {f \in Events : notification[f].status = "CREATED"}}

\* The entries of `active` that are not the handler's own notification.
Obsolete(h, active) == {a \in active : a.event # event[h]}

\* Variant (before DEF-002): the version is not compared when the row is written.
AnyVersion(row, expectedVersion) == TRUE

\* updateNotificationStatus and updateActionItemStatus: the WHERE of the updateMany.
VersionMatches(row, expectedVersion) == row.version = expectedVersion

\* Variant: an item the citizen has touched is left alone too.
IsTouched(status) == status \in Immune \cup {"ACKNOWLEDGED"}

\* The action items processSupersession leaves alone.
IsImmune(status) == status \in Immune

\* validateStateTransition.
LegalTargets(status) ==
    CASE status = "PENDING" -> ActionItemStatus \ {"PENDING"}
      [] status = "VIEWED" -> ActionItemStatus \ {"PENDING", "VIEWED"}
      [] status = "ACKNOWLEDGED" -> ActionItemStatus \ {"PENDING", "VIEWED", "ACKNOWLEDGED"}
      [] status = "ACTION_REQUIRED" -> Immune \cup {"DISMISSAL_REQUESTED"}
      [] status = "DISMISSAL_REQUESTED" -> {"DISMISSED", "COMPLETED", "SUPERSEDED"}
      [] OTHER -> {}

\* Variant: only the first channel is served.
FirstToDeliver(e) == IF pending[e] = Channels THEN {CHOOSE c \in Channels : TRUE} ELSE {}

\* The deliveries the handler walks through.
ToDeliver(e) == pending[e]

\* handleDecisionChangeEvent returns or throws: its locals are gone.
HandlerEnds(h) ==
    /\ pc' = [pc EXCEPT ![h] = "idle"]
    /\ event' = [event EXCEPT ![h] = NoEvent]
    /\ todo' = [todo EXCEPT ![h] = {}]
    /\ obsolete' = [obsolete EXCEPT ![h] = NoEvent]
    /\ itemSeen' = [itemSeen EXCEPT ![h] = NewItem]

Goto(h, label) == pc' = [pc EXCEPT ![h] = label]

-------------------------------------------------------------------------------
(* handleDecisionChangeEvent *)

\* An event is handed to the module, for the first time or again, and processIngestion
\* looks for its notification.
Ingest(h, e) ==
    /\ pc[h] = "idle"
    /\ MapThenSumSet(LAMBDA f : handlings[f], Events) < MaxHandlings
    /\ handlings' = [handlings EXCEPT ![e] = @ + 1]
    /\ IF AlreadyProcessed(e)
       THEN UNCHANGED handlerVars
       ELSE /\ Goto(h, "policy")
            /\ event' = [event EXCEPT ![h] = e]
            /\ UNCHANGED <<todo, obsolete, itemSeen>>
    /\ UNCHANGED <<rowVars, request, created, handed, refused, crashed>>

\* createSuppression: a row per handling, of which one is as good as many.
CreateSuppression(e) == suppressed' = suppressed \cup {e}

\* evaluatePolicy: it is quiet hours for the citizen.  Otherwise it only reads, and
\* so do the resolution of the channels and the rendering: the handler creates.
Suppress(h) ==
    /\ pc[h] = "policy"
    /\ CreateSuppression(event[h])
    /\ HandlerEnds(h)
    /\ UNCHANGED <<notification, item, pending, request, historyVars>>

\* A delivery for each channel, all of them PENDING.
CreateDeliveries(e) == pending' = [pending EXCEPT ![e] = Channels]

\* The transaction: action item, notification and deliveries, or nothing.
Create(h) ==
    /\ pc[h] = "policy"
    /\ IF UniqueViolation(event[h])
       THEN HandlerEnds(h) /\ UNCHANGED <<notification, item, pending, created>>
       ELSE /\ notification' = [notification EXCEPT ![event[h]] = NewNotification]
            /\ item' = [item EXCEPT ![event[h]] = NewItem]
            /\ CreateDeliveries(event[h])
            /\ created' = Append(created, event[h])
            /\ Goto(h, "findActive")
            /\ UNCHANGED <<event, todo, obsolete, itemSeen>>
    /\ UNCHANGED <<suppressed, request, handed, handlings, refused, crashed>>

FindActive(h) ==
    /\ pc[h] = "findActive"
    /\ todo' = [todo EXCEPT ![h] = Obsolete(h, ActiveNotifications)]
    /\ Goto(h, "supersede")
    /\ UNCHANGED <<rowVars, event, obsolete, itemSeen, request, historyVars>>

\* The update of one obsolete notification.  A conflict ends the handler.
SupersedeNotification(h, a) ==
    /\ pc[h] = "supersede"
    /\ a \in todo[h]
    /\ IF VersionMatches(notification[a.event], a.version)
       THEN /\ notification' = [notification EXCEPT ![a.event] =
                    [status |-> "SUPERSEDED", version |-> @.version + 1,
                     supersededBy |-> event[h]]]
            /\ todo' = [todo EXCEPT ![h] = @ \ {a}]
            /\ obsolete' = [obsolete EXCEPT ![h] = a.event]
            /\ Goto(h, "findItem")
            /\ UNCHANGED <<event, itemSeen, refused>>
       ELSE /\ HandlerEnds(h)
            /\ refused' = refused \cup {event[h]}
            /\ UNCHANGED notification
    /\ UNCHANGED <<item, pending, suppressed, request, created, handed, handlings, crashed>>

FindItem(h) ==
    /\ pc[h] = "findItem"
    /\ IF IsImmune(item[obsolete[h]].status)
       THEN Goto(h, "supersede") /\ UNCHANGED itemSeen
       ELSE Goto(h, "updateItem") /\ itemSeen' = [itemSeen EXCEPT ![h] = item[obsolete[h]]]
    /\ UNCHANGED <<rowVars, event, todo, obsolete, request, historyVars>>

SupersedeItem(h) ==
    /\ pc[h] = "updateItem"
    /\ IF VersionMatches(item[obsolete[h]], itemSeen[h].version)
       THEN /\ item' = [item EXCEPT ![obsolete[h]] =
                    [status |-> "SUPERSEDED", version |-> @.version + 1]]
            /\ Goto(h, "supersede")
            /\ UNCHANGED <<event, todo, obsolete, itemSeen, refused>>
       ELSE /\ HandlerEnds(h)
            /\ refused' = refused \cup {event[h]}
            /\ UNCHANGED item
    /\ UNCHANGED <<notification, pending, suppressed, request, created, handed, handlings,
                   crashed>>

\* Nothing is left to supersede: processDelivery of one channel after the other.
Deliver(h, c) ==
    /\ pc[h] = "supersede"
    /\ todo[h] = {}
    /\ c \in ToDeliver(event[h])
    /\ pending' = [pending EXCEPT ![event[h]] = @ \ {c}]
    /\ handed' = [handed EXCEPT ![event[h]][c] = @ + 1]
    /\ UNCHANGED <<notification, item, suppressed, handlerVars, request, created, handlings,
                   refused, crashed>>

Return(h) ==
    /\ pc[h] = "supersede"
    /\ todo[h] = {}
    /\ ToDeliver(event[h]) = {}
    /\ HandlerEnds(h)
    /\ UNCHANGED <<rowVars, request, historyVars>>

\* The process dies during the call, or a database call is rejected.
Crash(h) ==
    /\ pc[h] # "idle"
    /\ Cardinality(crashed \cup {event[h]}) <= MaxCrashes
    /\ crashed' = crashed \cup {event[h]}
    /\ HandlerEnds(h)
    /\ UNCHANGED <<rowVars, request, created, handed, handlings, refused>>

-------------------------------------------------------------------------------
(* The citizen.  The version a client sends is one the row has had: the client *)
(* read it there (the controller's default, 1, is the version of a new row).   *)

\* markNotificationAsRead: there is no condition on the status.
MarkRead(e, expectedVersion) ==
    /\ Exists(e)
    /\ expectedVersion <= notification[e].version
    /\ notification[e].status = "READ" => notification[e].version < MaxReadAgain
    /\ VersionMatches(notification[e], expectedVersion)
    /\ notification' = [notification EXCEPT ![e] =
            [status |-> "READ", version |-> @.version + 1, supersededBy |-> @.supersededBy]]
    /\ UNCHANGED <<item, pending, suppressed, handlerVars, request, historyVars>>

\* transitionState: the item is read and the transition validated ...
RequestTransition(s, e, target, expectedVersion) ==
    /\ request[s] = NoRequest
    /\ Exists(e)
    /\ expectedVersion <= item[e].version
    /\ item[e].version < MaxItemVersion
    /\ target \in LegalTargets(item[e].status)
    /\ request' = [request EXCEPT ![s] =
            [event |-> e, target |-> target, version |-> expectedVersion]]
    /\ UNCHANGED <<rowVars, handlerVars, historyVars>>

\* ... and written if the row still has the version the client sent.
ApplyTransition(s) ==
    /\ request[s] # NoRequest
    /\ item' = IF VersionMatches(item[request[s].event], request[s].version)
               THEN [item EXCEPT ![request[s].event] =
                        [status |-> request[s].target, version |-> @.version + 1]]
               ELSE item
    /\ request' = [request EXCEPT ![s] = NoRequest]
    /\ UNCHANGED <<notification, pending, suppressed, handlerVars, historyVars>>

-------------------------------------------------------------------------------

\* Steps of a handler that was started.
Step(h) ==
    \/ Suppress(h)
    \/ Create(h)
    \/ FindActive(h)
    \/ \E a \in todo[h] : SupersedeNotification(h, a)
    \/ FindItem(h)
    \/ SupersedeItem(h)
    \/ \E c \in Channels : Deliver(h, c)
    \/ Return(h)

Citizen ==
    \/ \E e \in Events, v \in 1..(MaxReadAgain + 1) : MarkRead(e, v)
    \/ \E s \in Sessions, e \in Events, t \in Targets, v \in 1..MaxItemVersion :
          RequestTransition(s, e, t, v)
    \/ \E s \in Sessions : ApplyTransition(s)

Next ==
    \/ \E h \in Handlers, e \in Events : Ingest(h, e)
    \/ \E h \in Handlers : Step(h)
    \/ \E h \in Handlers : Crash(h)
    \/ Citizen

Spec == Init /\ [][Next]_vars

\* A handler that was started runs on.  Nothing makes the citizen act.
FairSpec == Spec /\ \A h \in Handlers : WF_vars(Step(h))

-------------------------------------------------------------------------------
(* Properties *)

\* Every variable stays within its type.
TypeOK ==
    /\ notification \in [Events -> NotificationRow]
    /\ item \in [Events -> ItemRow]
    /\ pending \in [Events -> SUBSET Channels]
    /\ suppressed \subseteq Events
    /\ pc \in [Handlers -> PC]
    /\ event \in [Handlers -> Events \cup {NoEvent}]
    /\ todo \in [Handlers -> SUBSET [event : Events, version : Nat]]
    /\ obsolete \in [Handlers -> Events \cup {NoEvent}]
    /\ itemSeen \in [Handlers -> ItemRow]
    /\ request \in [Sessions -> [event : Events \cup {NoEvent}, target : Targets, version : Nat]]
    /\ created \in Seq(Events)
    /\ handed \in [Events -> [Channels -> Nat]]
    /\ handlings \in [Events -> Nat]
    /\ refused \subseteq Events
    /\ crashed \subseteq Events

\* A supersession link names another notification that exists, and is on a row
\* that is SUPERSEDED or was READ after that; an action item is SUPERSEDED only
\* if its notification was (processSupersession writes the two in turn, and several
\* handlers may be at it for one re-evaluation).
LinksConsistent == \A e \in Events :
    /\ notification[e].supersededBy # NoEvent =>
          /\ notification[e].supersededBy # e
          /\ Exists(notification[e].supersededBy)
          /\ notification[e].status \in {"SUPERSEDED", "READ"}
    /\ notification[e].status = "SUPERSEDED" \/ item[e].status = "SUPERSEDED" =>
          notification[e].supersededBy # NoEvent

\* The action item of a superseded notification is terminal, unless the handler
\* that superseded it is still working on that item or was cut short there.
ItemFollowsNotification == \A e \in Events : notification[e].supersededBy # NoEvent =>
    \/ item[e].status \in Immune
    \/ notification[e].supersededBy \in refused \cup crashed
    \/ \E h \in Handlers :
          /\ event[h] = notification[e].supersededBy
          /\ obsolete[h] = e
          /\ pc[h] \in {"findItem", "updateItem"}

\* A supersession leaves a pair of notifications and an item that belong together,
\* whatever other handlers and the citizen did between its updates.
\* (SupersessionService.processSupersession)
SupersessionConsistent == LinksConsistent /\ ItemFollowsNotification

\* What the citizen or a supersession settled stays settled, whatever a handler or a
\* request read before: a terminal action item is never changed again
\* (action-center-contract.md:68), and a notification the citizen has read is not
\* superseded by a handler that saw it unread (supersession.md: "active unread
\* notifications").
SettledIsKept == [][\A e \in Events :
    /\ item[e].status \in Immune => item'[e] = item[e]
    /\ notification[e].status = "READ" => notification'[e].status = "READ"]_vars

\* However often an event is handed to the module, and by however many concurrent
\* handlers, each channel of its notification goes to the outbox at most once; and when
\* no handler is at work on the event, it has its notification or a suppression, unless a
\* handling of it died, and all deliveries of the notification were handed to the
\* outbox, unless a handling was cut short: no other part of the program ever picks up
\* an event, or a delivery left PENDING.  (handleDecisionChangeEvent)
EveryEventAccounted == \A e \in Events :
    /\ \A c \in Channels : handed[e][c] <= 1
    /\ handlings[e] > 0 /\ (\A h \in Handlers : event[h] # e) =>
          /\ Exists(e) \/ e \in suppressed \cup crashed
          /\ Exists(e) /\ pending[e] # {} => e \in refused \cup crashed

\* What docs/supersession.md says: a notification is superseded by a newer one.
Position(e) == CHOOSE i \in 1..Len(created) : created[i] = e
NewerSupersedes == \A e \in Events : notification[e].supersededBy # NoEvent =>
    Position(notification[e].supersededBy) > Position(e)

\* What docs/action-center.md says: a non-terminal action item linked to a superseded
\* notification becomes SUPERSEDED (or terminal by the citizen's hand), if no
\* process dies.
SupersededItemSettles == \A e \in Events :
    notification[e].status = "SUPERSEDED"
        ~> (item[e].status \in Immune \/ notification[e].supersededBy \in crashed)

===============================================================================
