------------------------ MODULE NotificationCenterProofs ------------------------
(* Whatever handlers, redeliveries and the citizen do at the same time, supersession   *)
(* leaves notifications and items that belong together, settled rows stay settled, and *)
(* no event is lost unless a handling died.  What keeps it so is the version: a row     *)
(* that still has the version somebody read is still the row that was read.            *)
EXTENDS NotificationCenter, TLAPS

(* The invariant *)

\* Where a handler's own notification exists.
Created(h) == pc[h] \in {"findActive", "supersede", "findItem", "updateItem"}

\* Where it has superseded a notification and not yet looked after its item.
AtItem(h) == pc[h] \in {"findItem", "updateItem"}

\* Nothing is there before the transaction.
RowInv(e) ==
    ~Exists(e) =>
        /\ notification[e] = Absent
        /\ item[e] = NewItem
        /\ pending[e] = {}
        /\ \A c \in Channels : handed[e][c] = 0

\* A notification that still has the version of the list is still active.
ListInv(h) == \A a \in todo[h] :
    /\ a.event # event[h]
    /\ Exists(a.event)
    /\ a.version <= notification[a.event].version
    /\ a.version = notification[a.event].version => notification[a.event].status = "CREATED"

\* An item that still has the version a handler read is not terminal.
HandlerInv(h) ==
    /\ pc[h] = "idle" <=> event[h] = NoEvent
    /\ pc[h] \in {"idle", "policy"} => todo[h] = {}
    /\ Created(h) => Exists(event[h])
    /\ AtItem(h) => obsolete[h] \in Events /\ notification[obsolete[h]].supersededBy # NoEvent
    /\ pc[h] = "updateItem" =>
        /\ itemSeen[h].version <= item[obsolete[h]].version
        /\ itemSeen[h].version = item[obsolete[h]].version => item[obsolete[h]].status \notin Immune

\* So is one that has the version a request was validated against.
RequestInv(s) == request[s] # NoRequest =>
    /\ request[s].event \in Events
    /\ Exists(request[s].event)
    /\ request[s].version <= item[request[s].event].version
    /\ request[s].version = item[request[s].event].version =>
          item[request[s].event].status \notin Immune

\* Who is at work on an event, or why nobody is.
WorkInv(e) ==
    /\ handlings[e] > 0 =>
        \/ Exists(e)
        \/ e \in suppressed \cup crashed
        \/ \E h \in Handlers : event[h] = e
    /\ Exists(e) /\ pending[e] # {} =>
        \/ e \in refused \cup crashed
        \/ \E h \in Handlers : event[h] = e /\ Created(h)

\* A delivery that is pending was never handed over.
HandedInv(e) == \A c \in Channels :
    /\ handed[e][c] <= 1
    /\ c \in pending[e] => handed[e][c] = 0

IInv ==
    /\ TypeOK
    /\ \A e \in Events : RowInv(e) /\ WorkInv(e) /\ HandedInv(e)
    /\ \A h \in Handlers : ListInv(h) /\ HandlerInv(h)
    /\ \A s \in Sessions : RequestInv(s)
    /\ LinksConsistent
    /\ ItemFollowsNotification

-------------------------------------------------------------------------------
(* What every step keeps of the rows *)

\* Rows stay, links stay, and a row that changes has a new version.  What is settled
\* does not change.
RowsKept == \A e \in Events :
    /\ notification[e].status # "ABSENT" => notification'[e].status # "ABSENT"
    /\ notification[e].supersededBy # NoEvent => notification'[e].supersededBy # NoEvent
    /\ notification[e].status # "ABSENT" =>
          /\ notification'[e] = notification[e] \/ notification'[e].version > notification[e].version
          /\ item'[e] = item[e] \/ item'[e].version > item[e].version
    /\ item[e].status \in Immune => item'[e] = item[e]
    /\ notification[e].status = "READ" => notification'[e].status = "READ"

\* Nobody but h goes on.
Stays(h) == \A k \in Handlers \ {h} :
    /\ pc'[k] = pc[k] /\ event'[k] = event[k] /\ todo'[k] = todo[k]
    /\ obsolete'[k] = obsolete[k] /\ itemSeen'[k] = itemSeen[k]

LEMMA RowTypes == /\ Absent \in NotificationRow /\ NewNotification \in NotificationRow
                  /\ NewItem \in ItemRow /\ NewItem.status \notin Immune
                  /\ NewItem.status # "SUPERSEDED"
                  /\ Absent.supersededBy = NoEvent /\ Absent.status = "ABSENT"
                  /\ NewNotification.supersededBy = NoEvent
                  /\ NewNotification.status = "CREATED"
BY DEF Absent, NewNotification, NewItem, NotificationRow, ItemRow, NotificationStatus,
       ActionItemStatus, Immune

\* Steps that write neither a notification nor an item.
LEMMA SameRows ==
  ASSUME TypeOK, UNCHANGED <<notification, item>>
  PROVE  RowsKept
BY DEF RowsKept

LEMMA CreateRows ==
  ASSUME IInv, NEW h \in Handlers, Create(h)
  PROVE  RowsKept
<1>1. TypeOK /\ (\A e \in Events : RowInv(e)) /\ HandlerInv(h)
  BY DEF IInv
<1>2. event[h] \in Events
  BY <1>1 DEF Create, HandlerInv, TypeOK
<1>3. CASE UniqueViolation(event[h])
  BY <1>1, <1>3, SameRows DEF Create
<1>4. CASE ~UniqueViolation(event[h])
  <2>1. PICK e \in Events : e = event[h]
    BY <1>2
  <2>2. /\ notification' = [notification EXCEPT ![e] = NewNotification]
        /\ item' = [item EXCEPT ![e] = NewItem]
    BY <1>4, <2>1 DEF Create
  <2>3. notification[e] = Absent /\ item[e] = NewItem
    BY <1>1, <1>4, <2>1 DEF UniqueViolation, Exists, RowInv
  <2>4. \A f \in Events \ {e} : notification'[f] = notification[f] /\ item'[f] = item[f]
    BY <1>1, <2>2 DEF TypeOK
  <2>5. item'[e] = item[e]
    BY <1>1, <2>2, <2>3 DEF TypeOK
  <2> QED BY <2>3, <2>4, <2>5, RowTypes DEF RowsKept
<1> QED BY <1>3, <1>4

LEMMA SupersedeRows ==
  ASSUME IInv, NEW h \in Handlers, NEW a \in todo[h], SupersedeNotification(h, a)
  PROVE  RowsKept
<1>1. TypeOK /\ ListInv(h) /\ HandlerInv(h)
  BY DEF IInv
<1>2. a.event \in Events /\ notification \in [Events -> NotificationRow]
  BY <1>1 DEF TypeOK
<1>3. CASE ~VersionMatches(notification[a.event], a.version)
  BY <1>1, <1>3, SameRows DEF SupersedeNotification
<1>4. CASE VersionMatches(notification[a.event], a.version)
  <2>1. PICK e \in Events : e = a.event
    BY <1>2
  <2>2. notification[e].status = "CREATED"
    BY <1>1, <1>4, <2>1 DEF ListInv, VersionMatches
  <2>3. /\ notification' = [notification EXCEPT ![e] = [status |-> "SUPERSEDED",
                              version |-> notification[e].version + 1, supersededBy |-> event[h]]]
        /\ item' = item
    BY <1>4, <2>1 DEF SupersedeNotification
  <2>4. /\ notification'[e].supersededBy = event[h]
        /\ notification'[e].status = "SUPERSEDED"
        /\ notification'[e].version = notification[e].version + 1
        /\ \A f \in Events \ {e} : notification'[f] = notification[f]
    BY <1>2, <2>3
  <2>5. event[h] # NoEvent /\ notification[e].version \in Nat
    BY <1>1, <1>2 DEF SupersedeNotification, HandlerInv, NotificationRow
  <2>6. notification'[e].version > notification[e].version
    BY <2>4, <2>5
  <2> QED BY <2>2, <2>3, <2>4, <2>5, <2>6 DEF RowsKept
<1> QED BY <1>3, <1>4

LEMMA SupersedeItemRows ==
  ASSUME IInv, NEW h \in Handlers, SupersedeItem(h)
  PROVE  RowsKept
<1>1. TypeOK /\ HandlerInv(h)
  BY DEF IInv
<1>2. obsolete[h] \in Events /\ item \in [Events -> ItemRow]
  BY <1>1 DEF SupersedeItem, HandlerInv, AtItem, TypeOK
<1>3. CASE ~VersionMatches(item[obsolete[h]], itemSeen[h].version)
  BY <1>1, <1>3, SameRows DEF SupersedeItem
<1>4. CASE VersionMatches(item[obsolete[h]], itemSeen[h].version)
  <2>1. PICK e \in Events : e = obsolete[h]
    BY <1>2
  <2>2. item[e].status \notin Immune
    BY <1>1, <1>4, <2>1 DEF SupersedeItem, HandlerInv, VersionMatches
  <2>3. /\ item' = [item EXCEPT ![e] = [status |-> "SUPERSEDED", version |-> item[e].version + 1]]
        /\ notification' = notification
    BY <1>4, <2>1 DEF SupersedeItem
  <2>4. item'[e].version = item[e].version + 1 /\ \A f \in Events \ {e} : item'[f] = item[f]
    BY <1>2, <2>3
  <2>5. item[e].version \in Nat
    BY <1>2 DEF ItemRow
  <2>6. item'[e].version > item[e].version
    BY <2>4, <2>5
  <2> QED BY <2>2, <2>3, <2>4, <2>6 DEF RowsKept
<1> QED BY <1>3, <1>4

LEMMA MarkReadRows ==
  ASSUME IInv, NEW e \in Events, NEW v \in Nat, MarkRead(e, v)
  PROVE  RowsKept
<1>1. notification \in [Events -> NotificationRow]
  BY DEF IInv, TypeOK
<1>2. /\ notification' = [notification EXCEPT ![e] = [status |-> "READ",
            version |-> notification[e].version + 1, supersededBy |-> notification[e].supersededBy]]
      /\ item' = item
  BY DEF MarkRead
<1>3. /\ notification'[e].version = notification[e].version + 1
      /\ notification'[e].status = "READ"
      /\ notification'[e].supersededBy = notification[e].supersededBy
      /\ \A f \in Events \ {e} : notification'[f] = notification[f]
  BY <1>1, <1>2
<1>4. notification[e].version \in Nat
  BY <1>1 DEF NotificationRow
<1>5. notification'[e].version > notification[e].version
  BY <1>3, <1>4
<1> QED BY <1>2, <1>3, <1>5 DEF RowsKept

LEMMA TransitionRows ==
  ASSUME IInv, NEW s \in Sessions, ApplyTransition(s)
  PROVE  RowsKept
<1>1. TypeOK /\ RequestInv(s)
  BY DEF IInv
<1>2. PICK e \in Events : e = request[s].event
  BY <1>1 DEF ApplyTransition, RequestInv
<1>3. CASE ~VersionMatches(item[e], request[s].version)
  BY <1>1, <1>2, <1>3, SameRows DEF ApplyTransition
<1>4. CASE VersionMatches(item[e], request[s].version)
  <2>1. item[e].status \notin Immune
    BY <1>1, <1>2, <1>4 DEF ApplyTransition, RequestInv, VersionMatches
  <2>2. /\ item' = [item EXCEPT ![e] = [status |-> request[s].target, version |-> item[e].version + 1]]
        /\ notification' = notification
    BY <1>2, <1>4 DEF ApplyTransition
  <2>3. item \in [Events -> ItemRow] /\ item[e].version \in Nat
    BY <1>1 DEF TypeOK, ItemRow
  <2>4. item'[e].version = item[e].version + 1 /\ \A f \in Events \ {e} : item'[f] = item[f]
    BY <2>2, <2>3
  <2>5. item'[e].version > item[e].version
    BY <2>3, <2>4
  <2> QED BY <2>1, <2>2, <2>4, <2>5 DEF RowsKept
<1> QED BY <1>3, <1>4

-------------------------------------------------------------------------------
(* What the others have read stays good for what it was good for *)

LEMMA HandlersKeep ==
  ASSUME TypeOK, TypeOK', \A e \in Events : RowInv(e), RowsKept,
         NEW k \in Handlers, ListInv(k), HandlerInv(k),
         pc'[k] = pc[k], event'[k] = event[k], todo'[k] = todo[k],
         obsolete'[k] = obsolete[k], itemSeen'[k] = itemSeen[k]
  PROVE  ListInv(k)' /\ HandlerInv(k)'
<1>1. ListInv(k)'
  <2> SUFFICES ASSUME NEW a \in todo[k]
               PROVE  /\ a.event # event[k]
                      /\ notification'[a.event].status # "ABSENT"
                      /\ a.version <= notification'[a.event].version
                      /\ a.version = notification'[a.event].version =>
                            notification'[a.event].status = "CREATED"
    BY DEF ListInv, Exists
  <2>1. PICK e \in Events : e = a.event
    BY DEF TypeOK
  <2>2. a.version \in Nat /\ notification[e].version \in Nat /\ notification'[e].version \in Nat
    BY DEF TypeOK, NotificationRow
  <2>3. /\ e # event[k] /\ notification[e].status # "ABSENT"
        /\ a.version <= notification[e].version
        /\ a.version = notification[e].version => notification[e].status = "CREATED"
    BY <2>1 DEF ListInv, Exists
  <2>4. /\ notification'[e].status # "ABSENT"
        /\ notification'[e] = notification[e] \/ notification'[e].version > notification[e].version
    BY <2>3 DEF RowsKept
  <2> QED BY <2>1, <2>2, <2>3, <2>4
<1>2. HandlerInv(k)'
  <2>1. AtItem(k) => /\ obsolete[k] \in Events
                     /\ notification[obsolete[k]].supersededBy # NoEvent
                     /\ notification'[obsolete[k]].supersededBy # NoEvent
    BY DEF HandlerInv, RowsKept
  <2>2. Created(k) => notification'[event[k]].status # "ABSENT"
    <3>1. Created(k) => event[k] \in Events
      BY DEF HandlerInv, Created, TypeOK
    <3> QED BY <3>1 DEF HandlerInv, RowsKept, Exists
  <2>3. pc[k] = "updateItem" =>
          /\ itemSeen[k].version <= item'[obsolete[k]].version
          /\ itemSeen[k].version = item'[obsolete[k]].version =>
                item'[obsolete[k]].status \notin Immune
    <3> SUFFICES ASSUME pc[k] = "updateItem"
                 PROVE  /\ itemSeen[k].version <= item'[obsolete[k]].version
                        /\ itemSeen[k].version = item'[obsolete[k]].version =>
                              item'[obsolete[k]].status \notin Immune
      OBVIOUS
    <3>1. PICK e \in Events : e = obsolete[k] /\ notification[e].supersededBy # NoEvent
      BY <2>1 DEF AtItem
    <3>2. notification[e].status # "ABSENT"
      BY <3>1, RowTypes DEF RowInv, Exists
    <3>3. item'[e] = item[e] \/ item'[e].version > item[e].version
      BY <3>2 DEF RowsKept
    <3>4. itemSeen[k].version \in Nat /\ item[e].version \in Nat /\ item'[e].version \in Nat
      BY DEF TypeOK, ItemRow
    <3>5. /\ itemSeen[k].version <= item[e].version
          /\ itemSeen[k].version = item[e].version => item[e].status \notin Immune
      BY <3>1 DEF HandlerInv
    <3> QED BY <3>1, <3>3, <3>4, <3>5
  <2> QED BY <2>1, <2>2, <2>3 DEF HandlerInv, AtItem, Created, Exists
<1> QED BY <1>1, <1>2

LEMMA RequestsKeep ==
  ASSUME TypeOK, TypeOK', RowsKept, NEW s \in Sessions, RequestInv(s), request'[s] = request[s]
  PROVE  RequestInv(s)'
<1> SUFFICES ASSUME request[s] # NoRequest
             PROVE  /\ request[s].event \in Events
                    /\ notification'[request[s].event].status # "ABSENT"
                    /\ request[s].version <= item'[request[s].event].version
                    /\ request[s].version = item'[request[s].event].version =>
                          item'[request[s].event].status \notin Immune
  BY DEF RequestInv, Exists
<1>1. PICK e \in Events : e = request[s].event
  BY DEF RequestInv
<1>2. /\ notification[e].status # "ABSENT" /\ request[s].version <= item[e].version
      /\ request[s].version = item[e].version => item[e].status \notin Immune
  BY <1>1 DEF RequestInv, Exists
<1>3. /\ notification'[e].status # "ABSENT"
      /\ item'[e] = item[e] \/ item'[e].version > item[e].version
  BY <1>2 DEF RowsKept
<1>4. request[s].version \in Nat /\ item[e].version \in Nat /\ item'[e].version \in Nat
  BY DEF TypeOK, ItemRow
<1> QED BY <1>1, <1>2, <1>3, <1>4

\* The item of a superseded notification, when only h goes on.
LEMMA FollowKeeps ==
  ASSUME ItemFollowsNotification, RowsKept, NEW h \in Handlers, Stays(h),
         \A e \in Events :
            \/ notification'[e].supersededBy = notification[e].supersededBy
            \/ /\ notification'[e].supersededBy = event'[h]
               /\ obsolete'[h] = e
               /\ pc'[h] = "findItem",
         refused \subseteq refused', crashed \subseteq crashed',
         AtItem(h) =>
            \/ pc'[h] \in {"findItem", "updateItem"} /\ event'[h] = event[h]
                  /\ obsolete'[h] = obsolete[h]
            \/ item'[obsolete[h]].status \in Immune
            \/ event[h] \in refused' \cup crashed'
  PROVE  ItemFollowsNotification'
<1> SUFFICES ASSUME NEW e \in Events, notification'[e].supersededBy # NoEvent
             PROVE  \/ item'[e].status \in Immune
                    \/ notification'[e].supersededBy \in refused' \cup crashed'
                    \/ \E k \in Handlers :
                          /\ event'[k] = notification'[e].supersededBy
                          /\ obsolete'[k] = e
                          /\ pc'[k] \in {"findItem", "updateItem"}
  BY DEF ItemFollowsNotification
<1>1. CASE notification'[e].supersededBy = notification[e].supersededBy
  <2>1. CASE item[e].status \in Immune
    BY <2>1 DEF RowsKept
  <2>2. CASE notification[e].supersededBy \in refused \cup crashed
    BY <1>1, <2>2
  <2>3. ASSUME NEW k \in Handlers, event[k] = notification[e].supersededBy, obsolete[k] = e,
               pc[k] \in {"findItem", "updateItem"}
        PROVE  \/ item'[e].status \in Immune
               \/ notification'[e].supersededBy \in refused' \cup crashed'
               \/ event'[k] = notification'[e].supersededBy /\ obsolete'[k] = e
                    /\ pc'[k] \in {"findItem", "updateItem"}
    <3>1. CASE k = h
      BY <1>1, <2>3, <3>1 DEF AtItem
    <3>2. CASE k # h
      BY <1>1, <2>3, <3>2 DEF Stays
    <3> QED BY <3>1, <3>2
  <2> QED BY <1>1, <2>1, <2>2, <2>3 DEF ItemFollowsNotification
<1>2. CASE notification'[e].supersededBy # notification[e].supersededBy
  BY <1>2
<1> QED BY <1>1, <1>2

\* Who is at work on each event, when only h goes on.
LEMMA WorkKeeps ==
  ASSUME RowsKept, NEW h \in Handlers, Stays(h), NEW e \in Events, WorkInv(e),
         suppressed \subseteq suppressed', refused \subseteq refused', crashed \subseteq crashed',
         handlings'[e] > 0 => handlings[e] > 0 \/ event'[h] = e \/ notification[e].status # "ABSENT",
         event[h] = e => \/ event'[h] = e
                         \/ notification'[e].status # "ABSENT"
                         \/ e \in suppressed' \cup crashed',
         notification'[e].status # "ABSENT" /\ pending'[e] # {} =>
            \/ notification[e].status # "ABSENT" /\ pending[e] # {}
            \/ event'[h] = e /\ pc'[h] = "findActive",
         event[h] = e /\ Created(h) =>
            \/ event'[h] = e /\ pc'[h] \in {"findActive", "supersede", "findItem", "updateItem"}
            \/ e \in refused' \cup crashed'
            \/ pending'[e] = {}
  PROVE  WorkInv(e)'
<1>1. handlings'[e] > 0 =>
        \/ notification'[e].status # "ABSENT"
        \/ e \in suppressed' \cup crashed'
        \/ \E k \in Handlers : event'[k] = e
  <2>1. (\E k \in Handlers : event[k] = e) =>
          \/ notification'[e].status # "ABSENT"
          \/ e \in suppressed' \cup crashed'
          \/ \E k \in Handlers : event'[k] = e
    BY DEF Stays
  <2>2. notification[e].status # "ABSENT" => notification'[e].status # "ABSENT"
    BY DEF RowsKept
  <2> QED BY <2>1, <2>2 DEF WorkInv, Exists
<1>2. notification'[e].status # "ABSENT" /\ pending'[e] # {} =>
        \/ e \in refused' \cup crashed'
        \/ \E k \in Handlers : event'[k] = e
              /\ pc'[k] \in {"findActive", "supersede", "findItem", "updateItem"}
  <2> SUFFICES ASSUME notification'[e].status # "ABSENT", pending'[e] # {},
                      e \notin refused' \cup crashed'
               PROVE  \E k \in Handlers : event'[k] = e
                        /\ pc'[k] \in {"findActive", "supersede", "findItem", "updateItem"}
    OBVIOUS
  <2>1. CASE event'[h] = e /\ pc'[h] = "findActive"
    BY <2>1
  <2>2. CASE notification[e].status # "ABSENT" /\ pending[e] # {}
    <3>1. PICK k \in Handlers : event[k] = e /\ Created(k)
      BY <2>2 DEF WorkInv, Exists
    <3>2. CASE k = h
      BY <3>1, <3>2
    <3>3. CASE k # h
      BY <3>1, <3>3 DEF Stays, Created
    <3> QED BY <3>2, <3>3
  <2> QED BY <2>1, <2>2
<1> QED BY <1>1, <1>2 DEF WorkInv, Exists, Created

\* Links stay as they are when no notification is superseded.
LEMMA LinksKeep ==
  ASSUME LinksConsistent, RowsKept,
         \A e \in Events :
            /\ notification'[e].supersededBy = notification[e].supersededBy
            /\ notification[e].supersededBy # NoEvent =>
                  notification'[e].status \in {notification[e].status, "READ"}
            /\ notification'[e].status = "SUPERSEDED" => notification[e].status = "SUPERSEDED"
            /\ item'[e].status = "SUPERSEDED" =>
                  item[e].status = "SUPERSEDED" \/ notification[e].supersededBy # NoEvent,
         \A e \in Events : notification[e].supersededBy \in Events \cup {NoEvent}
  PROVE  LinksConsistent'
<1> SUFFICES ASSUME NEW e \in Events
             PROVE  /\ notification'[e].supersededBy # NoEvent =>
                         /\ notification'[e].supersededBy # e
                         /\ notification'[notification'[e].supersededBy].status # "ABSENT"
                         /\ notification'[e].status \in {"SUPERSEDED", "READ"}
                    /\ notification'[e].status = "SUPERSEDED" \/ item'[e].status = "SUPERSEDED" =>
                         notification'[e].supersededBy # NoEvent
  BY DEF LinksConsistent, Exists
<1>1. PICK b \in Events \cup {NoEvent} : b = notification[e].supersededBy
  OBVIOUS
<1>2. b # NoEvent => b # e /\ notification[b].status # "ABSENT"
                     /\ notification[e].status \in {"SUPERSEDED", "READ"}
  BY <1>1 DEF LinksConsistent, Exists
<1>3. b # NoEvent => notification'[b].status # "ABSENT"
  BY <1>2 DEF RowsKept
<1>4. notification[e].status = "SUPERSEDED" \/ item[e].status = "SUPERSEDED" => b # NoEvent
  BY <1>1 DEF LinksConsistent
<1>5. notification'[e].supersededBy = b
  BY <1>1
<1> QED BY <1>1, <1>2, <1>3, <1>4, <1>5

LEMMA HandlerStepKeeps ==
  ASSUME IInv, TypeOK', RowsKept, NEW h \in Handlers, Stays(h), request' = request,
         ListInv(h)', HandlerInv(h)', LinksConsistent',
         \A e \in Events : RowInv(e)' /\ HandedInv(e)',
         suppressed \subseteq suppressed', refused \subseteq refused', crashed \subseteq crashed',
         \A e \in Events :
            \/ notification'[e].supersededBy = notification[e].supersededBy
            \/ /\ notification'[e].supersededBy = event'[h]
               /\ obsolete'[h] = e
               /\ pc'[h] = "findItem",
         AtItem(h) =>
            \/ pc'[h] \in {"findItem", "updateItem"} /\ event'[h] = event[h]
                  /\ obsolete'[h] = obsolete[h]
            \/ item'[obsolete[h]].status \in Immune
            \/ event[h] \in refused' \cup crashed',
         \A e \in Events :
            /\ handlings'[e] > 0 =>
                  handlings[e] > 0 \/ event'[h] = e \/ notification[e].status # "ABSENT"
            /\ event[h] = e => \/ event'[h] = e
                               \/ notification'[e].status # "ABSENT"
                               \/ e \in suppressed' \cup crashed'
            /\ notification'[e].status # "ABSENT" /\ pending'[e] # {} =>
                  \/ notification[e].status # "ABSENT" /\ pending[e] # {}
                  \/ event'[h] = e /\ pc'[h] = "findActive"
            /\ event[h] = e /\ Created(h) =>
                  \/ event'[h] = e /\ pc'[h] \in {"findActive", "supersede", "findItem", "updateItem"}
                  \/ e \in refused' \cup crashed'
                  \/ pending'[e] = {}
  PROVE  IInv'
<1>1. /\ TypeOK /\ (\A e \in Events : RowInv(e) /\ WorkInv(e))
      /\ (\A k \in Handlers : ListInv(k) /\ HandlerInv(k))
      /\ (\A s \in Sessions : RequestInv(s)) /\ ItemFollowsNotification
  BY DEF IInv
<1>2. \A k \in Handlers : ListInv(k)' /\ HandlerInv(k)'
  <2> SUFFICES ASSUME NEW k \in Handlers, k # h PROVE ListInv(k)' /\ HandlerInv(k)'
    OBVIOUS
  <2>1. /\ pc'[k] = pc[k] /\ event'[k] = event[k] /\ todo'[k] = todo[k]
        /\ obsolete'[k] = obsolete[k] /\ itemSeen'[k] = itemSeen[k]
    BY DEF Stays
  <2> QED BY <1>1, <2>1, HandlersKeep
<1>3. \A s \in Sessions : RequestInv(s)'
  BY <1>1, RequestsKeep
<1>4. ItemFollowsNotification'
  BY <1>1, FollowKeeps
<1>5. \A e \in Events : WorkInv(e)'
  BY <1>1, WorkKeeps
<1> QED BY <1>2, <1>3, <1>4, <1>5 DEF IInv

\* Steps of a handler that write no notification, item or delivery.
LEMMA ReadingStepKeeps ==
  ASSUME IInv, NEW h \in Handlers, Stays(h),
         UNCHANGED <<notification, item, pending, request, created, handed>>,
         pc' \in [Handlers -> PC], event' \in [Handlers -> Events \cup {NoEvent}],
         todo' \in [Handlers -> SUBSET [event : Events, version : Nat]],
         obsolete' \in [Handlers -> Events \cup {NoEvent}],
         itemSeen' \in [Handlers -> ItemRow],
         handlings' \in [Events -> Nat],
         suppressed' \subseteq Events, refused' \subseteq Events, crashed' \subseteq Events,
         suppressed \subseteq suppressed', refused \subseteq refused', crashed \subseteq crashed',
         ListInv(h)', HandlerInv(h)',
         AtItem(h) =>
            \/ pc'[h] \in {"findItem", "updateItem"} /\ event'[h] = event[h]
                  /\ obsolete'[h] = obsolete[h]
            \/ item[obsolete[h]].status \in Immune
            \/ event[h] \in refused' \cup crashed',
         \A e \in Events :
            /\ handlings'[e] > 0 =>
                  handlings[e] > 0 \/ event'[h] = e \/ notification[e].status # "ABSENT"
            /\ event[h] = e => \/ event'[h] = e
                               \/ notification[e].status # "ABSENT"
                               \/ e \in suppressed' \cup crashed'
            /\ event[h] = e /\ Created(h) =>
                  \/ event'[h] = e /\ pc'[h] \in {"findActive", "supersede", "findItem", "updateItem"}
                  \/ e \in refused' \cup crashed'
                  \/ pending[e] = {}
  PROVE  IInv'
<1>1. TypeOK /\ LinksConsistent /\ \A e \in Events : RowInv(e) /\ HandedInv(e)
  BY DEF IInv
<1>2. TypeOK'
  BY <1>1 DEF TypeOK
<1>3. RowsKept
  BY <1>1, SameRows
<1>4. LinksConsistent' /\ \A e \in Events : RowInv(e)' /\ HandedInv(e)'
  BY <1>1 DEF LinksConsistent, RowInv, HandedInv, Exists
<1> QED BY <1>2, <1>3, <1>4, HandlerStepKeeps

\* A call that has returned.
LEMMA EndKeeps ==
  ASSUME TypeOK, NEW h \in Handlers, HandlerEnds(h)
  PROVE  /\ Stays(h)
         /\ pc' \in [Handlers -> PC] /\ event' \in [Handlers -> Events \cup {NoEvent}]
         /\ todo' \in [Handlers -> SUBSET [event : Events, version : Nat]]
         /\ obsolete' \in [Handlers -> Events \cup {NoEvent}]
         /\ itemSeen' \in [Handlers -> ItemRow]
         /\ pc'[h] = "idle" /\ event'[h] = NoEvent /\ todo'[h] = {}
         /\ ListInv(h)' /\ HandlerInv(h)'
<1>1. /\ pc \in [Handlers -> PC] /\ event \in [Handlers -> Events \cup {NoEvent}]
      /\ todo \in [Handlers -> SUBSET [event : Events, version : Nat]]
      /\ obsolete \in [Handlers -> Events \cup {NoEvent}]
      /\ itemSeen \in [Handlers -> ItemRow]
  BY DEF TypeOK
<1>2. pc'[h] = "idle" /\ event'[h] = NoEvent /\ todo'[h] = {}
  BY <1>1 DEF HandlerEnds
<1>3. Stays(h)
  BY <1>1 DEF HandlerEnds, Stays
<1>4. pc' \in [Handlers -> PC] /\ event' \in [Handlers -> Events \cup {NoEvent}]
      /\ obsolete' \in [Handlers -> Events \cup {NoEvent}]
  BY <1>1 DEF HandlerEnds, PC
<1>5. itemSeen' \in [Handlers -> ItemRow] /\ todo' \in [Handlers -> SUBSET [event : Events, version : Nat]]
  BY <1>1, RowTypes DEF HandlerEnds
<1>6. ListInv(h)' /\ HandlerInv(h)'
  BY <1>2 DEF ListInv, HandlerInv, Created, AtItem
<1> QED BY <1>2, <1>3, <1>4, <1>5, <1>6

\* The handler is at work on an event of the citizen's.
LEMMA AtWork ==
  ASSUME IInv, NEW h \in Handlers, pc[h] # "idle"
  PROVE  /\ event[h] \in Events
         /\ Created(h) => notification[event[h]].status # "ABSENT"
BY DEF IInv, HandlerInv, TypeOK, Exists

LEMMA IngestKeeps ==
  ASSUME IInv, NEW h \in Handlers, NEW e \in Events, Ingest(h, e)
  PROVE  IInv'
<1>1. TypeOK /\ ListInv(h) /\ HandlerInv(h) /\ pc[h] = "idle"
  BY DEF IInv, Ingest
<1>2. /\ UNCHANGED <<notification, item, pending, suppressed, request, created, handed, refused, crashed>>
      /\ handlings' = [handlings EXCEPT ![e] = @ + 1]
  BY DEF Ingest, rowVars
<1>3. handlings' \in [Events -> Nat] /\ \A f \in Events \ {e} : handlings'[f] = handlings[f]
  BY <1>1, <1>2 DEF TypeOK
<1>4. CASE AlreadyProcessed(e)
  <2>1. UNCHANGED <<pc, event, todo, obsolete, itemSeen>>
    BY <1>4 DEF Ingest, handlerVars
  <2>2. Stays(h)
    BY <2>1 DEF Stays
  <2>3. ListInv(h)' /\ HandlerInv(h)'
    BY <1>1, <1>2, <2>1 DEF ListInv, HandlerInv, Created, AtItem, Exists
  <2>4. notification[e].status # "ABSENT"
    BY <1>4 DEF AlreadyProcessed, Exists
  <2>5. ~AtItem(h) /\ ~Created(h)
    BY <1>1 DEF AtItem, Created
  <2> QED BY <1>1, <1>2, <1>3, <2>1, <2>2, <2>3, <2>4, <2>5, ReadingStepKeeps DEF TypeOK
<1>5. CASE ~AlreadyProcessed(e)
  <2>1. /\ pc' = [pc EXCEPT ![h] = "policy"] /\ event' = [event EXCEPT ![h] = e]
        /\ UNCHANGED <<todo, obsolete, itemSeen>>
    BY <1>5 DEF Ingest, Goto
  <2>2. /\ pc' \in [Handlers -> PC] /\ event' \in [Handlers -> Events \cup {NoEvent}]
        /\ pc'[h] = "policy" /\ event'[h] = e /\ Stays(h)
    BY <1>1, <2>1 DEF TypeOK, Stays, PC
  <2>3. ListInv(h)' /\ HandlerInv(h)'
    BY <1>1, <2>1, <2>2, CenterAssumption DEF ListInv, HandlerInv, Created, AtItem
  <2>4. ~AtItem(h) /\ ~Created(h) /\ event[h] = NoEvent
    BY <1>1 DEF AtItem, Created, HandlerInv
  <2> QED BY <1>1, <1>2, <1>3, <2>1, <2>2, <2>3, <2>4, CenterAssumption, ReadingStepKeeps
          DEF TypeOK
<1> QED BY <1>4, <1>5

LEMMA SuppressKeeps ==
  ASSUME IInv, NEW h \in Handlers, Suppress(h)
  PROVE  IInv'
<1>1. TypeOK /\ pc[h] = "policy"
  BY DEF IInv, Suppress
<1>2. event[h] \in Events
  BY <1>1, AtWork
<1>3. /\ UNCHANGED <<notification, item, pending, request, created, handed, handlings, refused, crashed>>
      /\ suppressed' = suppressed \cup {event[h]} /\ HandlerEnds(h)
  BY DEF Suppress, CreateSuppression, historyVars
<1>4. ~AtItem(h) /\ ~Created(h)
  BY <1>1 DEF AtItem, Created
<1> QED BY <1>1, <1>2, <1>3, <1>4, EndKeeps, ReadingStepKeeps DEF TypeOK

LEMMA FindActiveKeeps ==
  ASSUME IInv, NEW h \in Handlers, FindActive(h)
  PROVE  IInv'
<1>1. TypeOK /\ HandlerInv(h) /\ pc[h] = "findActive"
  BY DEF IInv, FindActive
<1>2. /\ UNCHANGED <<notification, item, pending, suppressed, event, obsolete, itemSeen, request,
                     created, handed, handlings, refused, crashed>>
      /\ todo' = [todo EXCEPT ![h] = Obsolete(h, ActiveNotifications)]
      /\ pc' = [pc EXCEPT ![h] = "supersede"]
  BY DEF FindActive, Goto, rowVars, historyVars
<1>3. event[h] \in Events
  BY <1>1, AtWork
<1>4. \A a \in Obsolete(h, ActiveNotifications) :
        /\ a \in [event : Events, version : Nat]
        /\ a.event # event[h]
        /\ notification[a.event].status = "CREATED"
        /\ a.version = notification[a.event].version
  BY <1>1 DEF Obsolete, ActiveNotifications, TypeOK, NotificationRow
<1>5. /\ todo' \in [Handlers -> SUBSET [event : Events, version : Nat]]
      /\ todo'[h] = Obsolete(h, ActiveNotifications)
      /\ pc' \in [Handlers -> PC] /\ pc'[h] = "supersede" /\ Stays(h)
  <2>1. Obsolete(h, ActiveNotifications) \in SUBSET [event : Events, version : Nat]
    BY <1>4
  <2> HIDE DEF Obsolete, ActiveNotifications
  <2>2. PICK S \in SUBSET [event : Events, version : Nat] : S = Obsolete(h, ActiveNotifications)
    BY <2>1
  <2> QED BY <1>1, <1>2, <2>2 DEF TypeOK, Stays, PC
<1>6. ListInv(h)'
  <2> SUFFICES ASSUME NEW a \in todo'[h]
               PROVE  /\ a.event # event'[h]
                      /\ notification'[a.event].status # "ABSENT"
                      /\ a.version <= notification'[a.event].version
                      /\ a.version = notification'[a.event].version =>
                            notification'[a.event].status = "CREATED"
    BY DEF ListInv, Exists
  <2>1. a.version \in Nat /\ a.event # event[h] /\ notification[a.event].status = "CREATED"
        /\ a.version = notification[a.event].version
    BY <1>4, <1>5
  <2> QED BY <1>2, <2>1
<1>7. HandlerInv(h)'
  BY <1>1, <1>2, <1>3, <1>5, CenterAssumption DEF HandlerInv, Created, AtItem, Exists
<1>8. ~AtItem(h)
  BY <1>1 DEF AtItem
<1> QED BY <1>1, <1>2, <1>5, <1>6, <1>7, <1>8, ReadingStepKeeps DEF TypeOK

LEMMA FindItemKeeps ==
  ASSUME IInv, NEW h \in Handlers, FindItem(h)
  PROVE  IInv'
<1>1. TypeOK /\ ListInv(h) /\ HandlerInv(h) /\ pc[h] = "findItem"
  BY DEF IInv, FindItem
<1>2. UNCHANGED <<notification, item, pending, suppressed, event, todo, obsolete, request,
                  created, handed, handlings, refused, crashed>>
  BY DEF FindItem, rowVars, historyVars
<1>3. /\ event[h] \in Events /\ notification[event[h]].status # "ABSENT"
      /\ obsolete[h] \in Events
  BY <1>1, AtWork DEF HandlerInv, AtItem, Created
<1>4. ListInv(h)'
  BY <1>1, <1>2 DEF ListInv, Exists
<1>5. CASE IsImmune(item[obsolete[h]].status)
  <2>1. pc' = [pc EXCEPT ![h] = "supersede"] /\ itemSeen' = itemSeen
    BY <1>5 DEF FindItem, Goto
  <2>2. pc' \in [Handlers -> PC] /\ pc'[h] = "supersede" /\ Stays(h)
    BY <1>1, <1>2, <2>1 DEF TypeOK, Stays, PC
  <2>3. HandlerInv(h)'
    BY <1>1, <1>2, <1>3, <2>1, <2>2, CenterAssumption DEF HandlerInv, Created, AtItem, Exists
  <2>4. item[obsolete[h]].status \in Immune
    BY <1>5 DEF IsImmune
  <2> QED BY <1>1, <1>2, <1>4, <2>1, <2>2, <2>3, <2>4, ReadingStepKeeps DEF TypeOK
<1>6. CASE ~IsImmune(item[obsolete[h]].status)
  <2>1. /\ pc' = [pc EXCEPT ![h] = "updateItem"]
        /\ itemSeen' = [itemSeen EXCEPT ![h] = item[obsolete[h]]]
    BY <1>6 DEF FindItem, Goto
  <2>2. /\ pc' \in [Handlers -> PC] /\ pc'[h] = "updateItem" /\ Stays(h)
        /\ itemSeen' \in [Handlers -> ItemRow] /\ itemSeen'[h] = item[obsolete[h]]
    BY <1>1, <1>2, <1>3, <2>1 DEF TypeOK, Stays, PC
  <2>3. item[obsolete[h]].version \in Nat /\ item[obsolete[h]].status \notin Immune
    BY <1>1, <1>3, <1>6 DEF IsImmune, TypeOK, ItemRow
  <2>4. HandlerInv(h)'
    BY <1>1, <1>2, <1>3, <2>2, <2>3, CenterAssumption DEF HandlerInv, Created, AtItem, Exists
  <2> QED BY <1>1, <1>2, <1>4, <2>1, <2>2, <2>4, ReadingStepKeeps DEF TypeOK
<1> QED BY <1>5, <1>6

LEMMA ReturnKeeps ==
  ASSUME IInv, NEW h \in Handlers, Return(h)
  PROVE  IInv'
<1>1. TypeOK /\ pc[h] = "supersede"
  BY DEF IInv, Return
<1>2. event[h] \in Events /\ notification[event[h]].status # "ABSENT"
  BY <1>1, AtWork DEF Created
<1>3. /\ UNCHANGED <<notification, item, pending, suppressed, request, created, handed, handlings,
                     refused, crashed>>
      /\ HandlerEnds(h) /\ pending[event[h]] = {}
  BY DEF Return, ToDeliver, rowVars, historyVars
<1>4. ~AtItem(h)
  BY <1>1 DEF AtItem
<1> QED BY <1>1, <1>2, <1>3, <1>4, EndKeeps, ReadingStepKeeps DEF TypeOK

LEMMA CrashKeeps ==
  ASSUME IInv, NEW h \in Handlers, Crash(h)
  PROVE  IInv'
<1>1. TypeOK /\ pc[h] # "idle"
  BY DEF IInv, Crash
<1>2. event[h] \in Events
  BY <1>1, AtWork
<1>3. /\ UNCHANGED <<notification, item, pending, suppressed, request, created, handed, handlings,
                     refused>>
      /\ crashed' = crashed \cup {event[h]} /\ HandlerEnds(h)
  BY DEF Crash, rowVars
<1> QED BY <1>1, <1>2, <1>3, EndKeeps, ReadingStepKeeps DEF TypeOK

\* An update refused for its version ends the handler.
LEMMA RefusedKeeps ==
  ASSUME IInv, NEW h \in Handlers, pc[h] \in {"supersede", "updateItem"}, HandlerEnds(h),
         refused' = refused \cup {event[h]},
         UNCHANGED <<notification, item, pending, suppressed, request, created, handed,
                     handlings, crashed>>
  PROVE  IInv'
<1>1. TypeOK
  BY DEF IInv
<1>2. event[h] \in Events /\ notification[event[h]].status # "ABSENT"
  BY <1>1, AtWork DEF Created
<1> QED BY <1>1, <1>2, EndKeeps, ReadingStepKeeps DEF TypeOK

-------------------------------------------------------------------------------
(* Steps of a handler that write *)

LEMMA CreateKeeps ==
  ASSUME IInv, NEW h \in Handlers, Create(h)
  PROVE  IInv'
<1>1. /\ TypeOK /\ LinksConsistent /\ pc[h] = "policy"
      /\ ListInv(h) /\ HandlerInv(h) /\ \A f \in Events : RowInv(f) /\ HandedInv(f)
  BY DEF IInv, Create
<1>2. PICK e \in Events : e = event[h]
  BY <1>1, AtWork
<1>3. ~AtItem(h) /\ ~Created(h) /\ todo[h] = {}
  BY <1>1 DEF AtItem, Created, HandlerInv
<1>4. UNCHANGED <<suppressed, request, handed, handlings, refused, crashed>>
  BY DEF Create
<1>5. CASE UniqueViolation(event[h])
  <2>1. HandlerEnds(h) /\ UNCHANGED <<notification, item, pending, created>>
    BY <1>5 DEF Create
  <2>2. notification[e].status # "ABSENT"
    BY <1>2, <1>5 DEF UniqueViolation, Exists
  <2> QED BY <1>1, <1>2, <1>3, <1>4, <2>1, <2>2, EndKeeps, ReadingStepKeeps DEF TypeOK
<1>6. CASE ~UniqueViolation(event[h])
  <2>1. /\ notification' = [notification EXCEPT ![e] = NewNotification]
        /\ item' = [item EXCEPT ![e] = NewItem]
        /\ pending' = [pending EXCEPT ![e] = Channels]
        /\ created' = Append(created, e)
        /\ pc' = [pc EXCEPT ![h] = "findActive"]
        /\ UNCHANGED <<event, todo, obsolete, itemSeen>>
    BY <1>2, <1>6 DEF Create, CreateDeliveries, Goto
  <2>2. /\ notification' \in [Events -> NotificationRow] /\ notification'[e] = NewNotification
        /\ item' \in [Events -> ItemRow] /\ item'[e] = NewItem
        /\ pending' \in [Events -> SUBSET Channels]
        /\ \A f \in Events \ {e} : /\ notification'[f] = notification[f]
                                   /\ item'[f] = item[f] /\ pending'[f] = pending[f]
    BY <1>1, <2>1, RowTypes DEF TypeOK
  <2>3. pc' \in [Handlers -> PC] /\ pc'[h] = "findActive" /\ Stays(h)
    BY <1>1, <2>1 DEF TypeOK, PC, Stays
  <2>4. created' \in Seq(Events)
    BY <1>1, <2>1 DEF TypeOK
  <2>5. TypeOK'
    BY <1>1, <1>4, <2>1, <2>2, <2>3, <2>4 DEF TypeOK
  <2>6. RowsKept
    BY CreateRows
  <2>7. /\ notification[e] = Absent /\ item[e] = NewItem
        /\ \A c \in Channels : handed[e][c] = 0
    BY <1>1, <1>2, <1>6 DEF UniqueViolation, Exists, RowInv
  <2>8. ListInv(h)' /\ HandlerInv(h)'
    <3>1. todo'[h] = {} /\ event'[h] = e
      BY <1>2, <1>3, <2>1
    <3>2. notification'[e].status # "ABSENT"
      BY <2>2, RowTypes
    <3> QED BY <2>3, <3>1, <3>2, CenterAssumption DEF ListInv, HandlerInv, Created, AtItem, Exists
  <2>9. LinksConsistent'
    <3>1. \A f \in Events : notification[f].supersededBy \in Events \cup {NoEvent}
      BY <1>1 DEF TypeOK, NotificationRow
    <3>2. \A f \in Events \ {e} : notification'[f] = notification[f] /\ item'[f] = item[f]
      BY <2>2
    <3>3. /\ notification'[e].supersededBy = NoEvent /\ notification[e].supersededBy = NoEvent
          /\ notification'[e].status = "CREATED" /\ item'[e].status # "SUPERSEDED"
      BY <2>2, <2>7, RowTypes
    <3> QED BY <1>1, <2>6, <3>1, <3>2, <3>3, LinksKeep
  <2>10. \A f \in Events : RowInv(f)' /\ HandedInv(f)'
    <3>1. ASSUME NEW f \in Events, f # e PROVE RowInv(f)' /\ HandedInv(f)'
      BY <1>1, <1>4, <2>2, <3>1 DEF RowInv, HandedInv, Exists
    <3>2. RowInv(e)' /\ HandedInv(e)'
      BY <1>4, <2>2, <2>7, RowTypes DEF RowInv, HandedInv, Exists
    <3> QED BY <3>1, <3>2
  <2>11. \A f \in Events : notification'[f].supersededBy = notification[f].supersededBy
    BY <2>2, <2>7, RowTypes
  <2> QED BY <1>2, <1>3, <1>4, <2>1, <2>2, <2>3, <2>5, <2>6, <2>8, <2>9, <2>10, <2>11,
             HandlerStepKeeps
<1> QED BY <1>5, <1>6

LEMMA SupersedeNotificationKeeps ==
  ASSUME IInv, NEW h \in Handlers, NEW a \in todo[h], SupersedeNotification(h, a)
  PROVE  IInv'
<1>1. /\ TypeOK /\ LinksConsistent /\ pc[h] = "supersede"
      /\ ListInv(h) /\ HandlerInv(h) /\ \A f \in Events : RowInv(f) /\ HandedInv(f)
  BY DEF IInv, SupersedeNotification
<1>2. UNCHANGED <<item, pending, suppressed, request, created, handed, handlings, crashed>>
  BY DEF SupersedeNotification
<1>3. PICK e \in Events : e = a.event
  BY <1>1 DEF TypeOK
<1>4. PICK b \in Events : b = event[h] /\ notification[b].status # "ABSENT" /\ b # e
  BY <1>1, <1>3, AtWork DEF Created, ListInv
<1>5. CASE ~VersionMatches(notification[a.event], a.version)
  BY <1>1, <1>2, <1>5, RefusedKeeps DEF SupersedeNotification
<1>6. CASE VersionMatches(notification[a.event], a.version)
  <2>1. /\ notification' = [notification EXCEPT ![e] = [status |-> "SUPERSEDED",
                              version |-> notification[e].version + 1, supersededBy |-> b]]
        /\ todo' = [todo EXCEPT ![h] = todo[h] \ {a}]
        /\ obsolete' = [obsolete EXCEPT ![h] = e]
        /\ pc' = [pc EXCEPT ![h] = "findItem"]
        /\ UNCHANGED <<event, itemSeen, refused>>
    BY <1>3, <1>4, <1>6 DEF SupersedeNotification, Goto
  <2>2. notification[e].version + 1 \in Nat
    BY <1>1 DEF TypeOK, NotificationRow
  <2>3. [status |-> "SUPERSEDED", version |-> notification[e].version + 1, supersededBy |-> b]
          \in NotificationRow
    BY <2>2 DEF NotificationRow, NotificationStatus
  <2>4. /\ notification' \in [Events -> NotificationRow]
        /\ notification'[e].status = "SUPERSEDED" /\ notification'[e].supersededBy = b
        /\ \A f \in Events \ {e} : notification'[f] = notification[f]
    BY <1>1, <2>1, <2>3 DEF TypeOK
  <2>5. /\ todo' \in [Handlers -> SUBSET [event : Events, version : Nat]]
        /\ todo'[h] = todo[h] \ {a}
    BY <1>1, <2>1 DEF TypeOK
  <2>6. /\ pc' \in [Handlers -> PC] /\ pc'[h] = "findItem"
        /\ obsolete' \in [Handlers -> Events \cup {NoEvent}] /\ obsolete'[h] = e
        /\ Stays(h)
    BY <1>1, <2>1 DEF TypeOK, PC, Stays
  <2>7. TypeOK'
    BY <1>1, <1>2, <2>1, <2>4, <2>5, <2>6 DEF TypeOK
  <2>8. RowsKept
    BY SupersedeRows
  <2>9. ListInv(h)'
    <3> SUFFICES ASSUME NEW x \in todo[h], x # a
                 PROVE  /\ x.event # event'[h]
                        /\ notification'[x.event].status # "ABSENT"
                        /\ x.version <= notification'[x.event].version
                        /\ x.version = notification'[x.event].version =>
                              notification'[x.event].status = "CREATED"
      BY <2>5 DEF ListInv, Exists
    <3>1. PICK f \in Events : f = x.event
      BY <1>1 DEF TypeOK
    <3>2. x.version \in Nat /\ notification[f].version \in Nat /\ notification'[f].version \in Nat
      BY <1>1, <2>7 DEF TypeOK, NotificationRow
    <3>3. /\ f # event[h] /\ notification[f].status # "ABSENT"
          /\ x.version <= notification[f].version
          /\ x.version = notification[f].version => notification[f].status = "CREATED"
      BY <1>1, <3>1 DEF ListInv, Exists
    <3>4. /\ notification'[f].status # "ABSENT"
          /\ notification'[f] = notification[f] \/ notification'[f].version > notification[f].version
      BY <2>8, <3>3 DEF RowsKept
    <3> QED BY <2>1, <3>1, <3>2, <3>3, <3>4
  <2>10. HandlerInv(h)'
    BY <1>4, <2>1, <2>4, <2>6, CenterAssumption DEF HandlerInv, Created, AtItem, Exists
  <2>11. LinksConsistent'
    <3> SUFFICES ASSUME NEW f \in Events
                 PROVE  /\ notification'[f].supersededBy # NoEvent =>
                             /\ notification'[f].supersededBy # f
                             /\ notification'[notification'[f].supersededBy].status # "ABSENT"
                             /\ notification'[f].status \in {"SUPERSEDED", "READ"}
                        /\ notification'[f].status = "SUPERSEDED" \/ item'[f].status = "SUPERSEDED" =>
                             notification'[f].supersededBy # NoEvent
      BY DEF LinksConsistent, Exists
    <3>1. CASE f = e
      BY <1>4, <2>4, <3>1, CenterAssumption
    <3>2. CASE f # e
      <4>1. notification'[f] = notification[f] /\ item'[f] = item[f]
        BY <1>2, <2>4, <3>2
      <4>2. PICK g \in Events \cup {NoEvent} : g = notification[f].supersededBy
        BY <1>1 DEF TypeOK, NotificationRow
      <4>3. g # NoEvent => g # f /\ notification[g].status # "ABSENT"
                           /\ notification[f].status \in {"SUPERSEDED", "READ"}
        BY <1>1, <4>2 DEF LinksConsistent, Exists
      <4>4. g # NoEvent => notification'[g].status # "ABSENT"
        BY <2>8, <4>3 DEF RowsKept
      <4> QED BY <1>1, <4>1, <4>2, <4>3, <4>4 DEF LinksConsistent
    <3> QED BY <3>1, <3>2
  <2>12. \A f \in Events : RowInv(f)' /\ HandedInv(f)'
    <3>1. ASSUME NEW f \in Events, f # e PROVE RowInv(f)' /\ HandedInv(f)'
      BY <1>1, <1>2, <2>4, <3>1 DEF RowInv, HandedInv, Exists
    <3>2. RowInv(e)' /\ HandedInv(e)'
      BY <1>1, <1>2, <2>4 DEF RowInv, HandedInv, Exists
    <3> QED BY <3>1, <3>2
  <2>13. \A f \in Events :
            \/ notification'[f].supersededBy = notification[f].supersededBy
            \/ notification'[f].supersededBy = event'[h] /\ obsolete'[h] = f /\ pc'[h] = "findItem"
    BY <1>4, <2>1, <2>4, <2>6
  <2>14. ~AtItem(h)
    BY <1>1 DEF AtItem
  <2>15. \A f \in Events : notification'[f].status # "ABSENT" => notification[f].status # "ABSENT"
    BY <1>1, <1>3, <2>4 DEF ListInv, Exists
  <2> QED BY <1>2, <2>1, <2>6, <2>7, <2>8, <2>9, <2>10, <2>11, <2>12, <2>13, <2>14, <2>15,
             HandlerStepKeeps
<1> QED BY <1>5, <1>6

LEMMA SupersedeItemKeeps ==
  ASSUME IInv, NEW h \in Handlers, SupersedeItem(h)
  PROVE  IInv'
<1>1. /\ TypeOK /\ LinksConsistent /\ pc[h] = "updateItem"
      /\ ListInv(h) /\ HandlerInv(h) /\ \A f \in Events : RowInv(f) /\ HandedInv(f)
  BY DEF IInv, SupersedeItem
<1>2. UNCHANGED <<notification, pending, suppressed, request, created, handed, handlings, crashed>>
  BY DEF SupersedeItem
<1>3. PICK e \in Events : e = obsolete[h] /\ notification[e].supersededBy # NoEvent
  BY <1>1 DEF HandlerInv, AtItem
<1>4. event[h] \in Events /\ notification[event[h]].status # "ABSENT"
  BY <1>1, AtWork DEF Created
<1>5. CASE ~VersionMatches(item[obsolete[h]], itemSeen[h].version)
  BY <1>1, <1>2, <1>5, RefusedKeeps DEF SupersedeItem
<1>6. CASE VersionMatches(item[obsolete[h]], itemSeen[h].version)
  <2>1. /\ item' = [item EXCEPT ![e] = [status |-> "SUPERSEDED", version |-> item[e].version + 1]]
        /\ pc' = [pc EXCEPT ![h] = "supersede"]
        /\ UNCHANGED <<event, todo, obsolete, itemSeen, refused>>
    BY <1>3, <1>6 DEF SupersedeItem, Goto
  <2>2. item[e].version + 1 \in Nat
    BY <1>1 DEF TypeOK, ItemRow
  <2>3. [status |-> "SUPERSEDED", version |-> item[e].version + 1] \in ItemRow
    BY <2>2 DEF ItemRow, ActionItemStatus
  <2>4. /\ item' \in [Events -> ItemRow] /\ item'[e].status = "SUPERSEDED"
        /\ \A f \in Events \ {e} : item'[f] = item[f]
    BY <1>1, <2>1, <2>3 DEF TypeOK
  <2>5. pc' \in [Handlers -> PC] /\ pc'[h] = "supersede" /\ Stays(h)
    BY <1>1, <2>1 DEF TypeOK, PC, Stays
  <2>6. TypeOK'
    BY <1>1, <1>2, <2>1, <2>4, <2>5 DEF TypeOK
  <2>7. RowsKept
    BY SupersedeItemRows
  <2>8. ListInv(h)' /\ HandlerInv(h)'
    BY <1>1, <1>2, <1>4, <2>1, <2>5, CenterAssumption
       DEF ListInv, HandlerInv, Created, AtItem, Exists
  <2>9. LinksConsistent'
    BY <1>1, <1>2, <1>3, <2>4 DEF LinksConsistent, Exists
  <2>10. \A f \in Events : RowInv(f)' /\ HandedInv(f)'
    <3>1. notification[e].status # "ABSENT"
      BY <1>1, <1>3, RowTypes DEF RowInv, Exists
    <3> QED BY <1>1, <1>2, <2>4, <3>1 DEF RowInv, HandedInv, Exists
  <2>11. item'[obsolete[h]].status \in Immune
    BY <1>3, <2>4 DEF Immune
  <2> QED BY <1>2, <2>1, <2>5, <2>6, <2>7, <2>8, <2>9, <2>10, <2>11, HandlerStepKeeps
<1> QED BY <1>5, <1>6

LEMMA DeliverKeeps ==
  ASSUME IInv, NEW h \in Handlers, NEW c \in Channels, Deliver(h, c)
  PROVE  IInv'
<1>1. /\ TypeOK /\ LinksConsistent /\ pc[h] = "supersede"
      /\ ListInv(h) /\ HandlerInv(h) /\ \A f \in Events : RowInv(f) /\ HandedInv(f)
  BY DEF IInv, Deliver
<1>2. UNCHANGED <<notification, item, suppressed, pc, event, todo, obsolete, itemSeen, request,
                  created, handlings, refused, crashed>>
  BY DEF Deliver, handlerVars
<1>3. PICK e \in Events : e = event[h] /\ notification[e].status # "ABSENT"
  BY <1>1, AtWork DEF Created
<1>4. /\ pending' = [pending EXCEPT ![e] = pending[e] \ {c}]
      /\ handed' = [handed EXCEPT ![e] = [handed[e] EXCEPT ![c] = handed[e][c] + 1]]
      /\ c \in pending[e]
  BY <1>1, <1>3 DEF Deliver, ToDeliver, TypeOK
<1>5. handed[e] \in [Channels -> Nat] /\ handed[e][c] = 0
  BY <1>1, <1>4 DEF TypeOK, HandedInv
<1>6. [handed[e] EXCEPT ![c] = handed[e][c] + 1] \in [Channels -> Nat]
  BY <1>5
<1>7. /\ pending' \in [Events -> SUBSET Channels] /\ pending'[e] = pending[e] \ {c}
      /\ handed' \in [Events -> [Channels -> Nat]]
      /\ handed'[e] = [handed[e] EXCEPT ![c] = handed[e][c] + 1]
      /\ \A f \in Events \ {e} : pending'[f] = pending[f] /\ handed'[f] = handed[f]
  BY <1>1, <1>4, <1>6 DEF TypeOK
<1>8. TypeOK' /\ RowsKept /\ Stays(h)
  BY <1>1, <1>2, <1>7, SameRows DEF TypeOK, Stays
<1>9. ListInv(h)' /\ HandlerInv(h)' /\ LinksConsistent'
  BY <1>1, <1>2 DEF ListInv, HandlerInv, Created, AtItem, LinksConsistent, Exists
<1>10. \A f \in Events : RowInv(f)' /\ HandedInv(f)'
  <2>1. ASSUME NEW f \in Events, f # e PROVE RowInv(f)' /\ HandedInv(f)'
    BY <1>1, <1>2, <1>7, <2>1 DEF RowInv, HandedInv, Exists
  <2>2. handed'[e][c] = 1 /\ \A d \in Channels \ {c} : handed'[e][d] = handed[e][d]
    BY <1>5, <1>7
  <2>3. RowInv(e)' /\ HandedInv(e)'
    BY <1>1, <1>2, <1>3, <1>7, <2>2 DEF RowInv, HandedInv, Exists
  <2> QED BY <2>1, <2>3
<1>11. \A f \in Events : pending'[f] # {} => pending[f] # {}
  BY <1>7
<1>12. ~AtItem(h) /\ pc'[h] = "supersede"
  BY <1>1, <1>2 DEF AtItem
<1> QED BY <1>2, <1>8, <1>9, <1>10, <1>11, <1>12, HandlerStepKeeps

-------------------------------------------------------------------------------
(* Steps of the citizen *)

\* No handler moves; links, deliveries and the history stay.
LEMMA CitizenKeeps ==
  ASSUME IInv, TypeOK', RowsKept,
         UNCHANGED <<pending, suppressed, pc, event, todo, obsolete, itemSeen, created, handed,
                     handlings, refused, crashed>>,
         \A e \in Events :
            /\ notification'[e].supersededBy = notification[e].supersededBy
            /\ notification[e].supersededBy # NoEvent =>
                  notification'[e].status \in {notification[e].status, "READ"}
            /\ notification'[e].status = "SUPERSEDED" => notification[e].status = "SUPERSEDED"
            /\ notification[e].status = "ABSENT" =>
                  notification'[e] = notification[e] /\ item'[e] = item[e]
            /\ item'[e].status = "SUPERSEDED" => item[e].status = "SUPERSEDED",
         \A s \in Sessions : RequestInv(s)'
  PROVE  IInv'
<1>1. /\ TypeOK /\ LinksConsistent /\ ItemFollowsNotification
      /\ \A e \in Events : RowInv(e) /\ WorkInv(e) /\ HandedInv(e)
      /\ \A k \in Handlers : ListInv(k) /\ HandlerInv(k)
  BY DEF IInv
<1>2. \A k \in Handlers : ListInv(k)' /\ HandlerInv(k)'
  BY <1>1, HandlersKeep
<1>3. LinksConsistent'
  BY <1>1, LinksKeep DEF TypeOK, NotificationRow
<1>4. ItemFollowsNotification'
  BY <1>1 DEF ItemFollowsNotification, RowsKept
<1>5. \A e \in Events : (notification'[e].status # "ABSENT") <=> (notification[e].status # "ABSENT")
  BY DEF RowsKept
<1>6. \A e \in Events : RowInv(e)' /\ HandedInv(e)' /\ WorkInv(e)'
  BY <1>1, <1>5 DEF RowInv, HandedInv, WorkInv, Created, Exists
<1> QED BY <1>2, <1>3, <1>4, <1>6 DEF IInv

LEMMA MarkReadKeeps ==
  ASSUME IInv, NEW e \in Events, NEW v \in Nat, MarkRead(e, v)
  PROVE  IInv'
<1>1. TypeOK /\ \A s \in Sessions : RequestInv(s)
  BY DEF IInv
<1>2. /\ notification' = [notification EXCEPT ![e] = [status |-> "READ",
            version |-> notification[e].version + 1, supersededBy |-> notification[e].supersededBy]]
      /\ UNCHANGED <<item, pending, suppressed, pc, event, todo, obsolete, itemSeen, request,
                     created, handed, handlings, refused, crashed>>
      /\ notification[e].status # "ABSENT"
  BY DEF MarkRead, handlerVars, historyVars, Exists
<1>3. /\ notification[e].version + 1 \in Nat
      /\ notification[e].supersededBy \in Events \cup {NoEvent}
  BY <1>1 DEF TypeOK, NotificationRow
<1>4. [status |-> "READ", version |-> notification[e].version + 1,
       supersededBy |-> notification[e].supersededBy] \in NotificationRow
  BY <1>3 DEF NotificationRow, NotificationStatus
<1>5. /\ notification' \in [Events -> NotificationRow]
      /\ notification'[e].status = "READ"
      /\ notification'[e].supersededBy = notification[e].supersededBy
      /\ \A f \in Events \ {e} : notification'[f] = notification[f]
  BY <1>1, <1>2, <1>4 DEF TypeOK
<1>6. TypeOK'
  BY <1>1, <1>2, <1>5 DEF TypeOK
<1>7. RowsKept
  BY MarkReadRows
<1>8. \A s \in Sessions : RequestInv(s)'
  BY <1>1, <1>2, <1>6, <1>7, RequestsKeep
<1> QED BY <1>2, <1>5, <1>6, <1>7, <1>8, CitizenKeeps

LEMMA LegalTargetsOfImmune == \A t \in Immune : LegalTargets(t) = {}
BY DEF Immune, LegalTargets

LEMMA RequestKeeps ==
  ASSUME IInv, NEW s \in Sessions, NEW e \in Events, NEW t \in Targets, NEW v \in Nat,
         RequestTransition(s, e, t, v)
  PROVE  IInv'
<1>1. TypeOK /\ \A q \in Sessions : RequestInv(q)
  BY DEF IInv
<1>2. /\ request' = [request EXCEPT ![s] = [event |-> e, target |-> t, version |-> v]]
      /\ UNCHANGED <<notification, item, pending, suppressed, pc, event, todo, obsolete, itemSeen,
                     created, handed, handlings, refused, crashed>>
      /\ notification[e].status # "ABSENT" /\ v <= item[e].version
      /\ t \in LegalTargets(item[e].status)
  BY DEF RequestTransition, rowVars, handlerVars, historyVars, Exists
<1>3. /\ request' \in [Sessions -> [event : Events \cup {NoEvent}, target : Targets, version : Nat]]
      /\ request'[s] = [event |-> e, target |-> t, version |-> v]
      /\ \A q \in Sessions \ {s} : request'[q] = request[q]
  BY <1>1, <1>2 DEF TypeOK
<1>4. TypeOK' /\ RowsKept
  BY <1>1, <1>2, <1>3, SameRows DEF TypeOK
<1>5. item[e].status \notin Immune
  BY <1>2, LegalTargetsOfImmune
<1>6. RequestInv(s)'
  BY <1>2, <1>3, <1>5 DEF RequestInv, Exists
<1>7. \A q \in Sessions : RequestInv(q)'
  BY <1>1, <1>3, <1>4, <1>6, RequestsKeep
<1> QED BY <1>2, <1>4, <1>7, CitizenKeeps

LEMMA TransitionKeeps ==
  ASSUME IInv, NEW s \in Sessions, ApplyTransition(s)
  PROVE  IInv'
<1>1. TypeOK /\ (\A q \in Sessions : RequestInv(q)) /\ request[s] # NoRequest
  BY DEF IInv, ApplyTransition
<1>2. /\ UNCHANGED <<notification, pending, suppressed, pc, event, todo, obsolete, itemSeen,
                     created, handed, handlings, refused, crashed>>
      /\ request' = [request EXCEPT ![s] = NoRequest]
  BY DEF ApplyTransition, handlerVars, historyVars
<1>3. PICK e \in Events : e = request[s].event /\ notification[e].status # "ABSENT"
  BY <1>1 DEF RequestInv, Exists
<1>4. request[s].target \in Targets
  BY <1>1 DEF TypeOK
<1>5. /\ item' \in [Events -> ItemRow]
      /\ \A f \in Events \ {e} : item'[f] = item[f]
      /\ item'[e] = item[e] \/ item'[e].status # "SUPERSEDED"
  <2>1. CASE VersionMatches(item[e], request[s].version)
    <3>1. item' = [item EXCEPT ![e] = [status |-> request[s].target, version |-> item[e].version + 1]]
      BY <1>3, <2>1 DEF ApplyTransition
    <3>2. item[e].version + 1 \in Nat
      BY <1>1 DEF TypeOK, ItemRow
    <3>3. [status |-> request[s].target, version |-> item[e].version + 1] \in ItemRow
          /\ request[s].target # "SUPERSEDED"
      BY <1>4, <3>2 DEF ItemRow, ActionItemStatus, Targets
    <3> QED BY <1>1, <3>1, <3>3 DEF TypeOK
  <2>2. CASE ~VersionMatches(item[e], request[s].version)
    BY <1>1, <1>3, <2>2 DEF ApplyTransition, TypeOK
  <2> QED BY <2>1, <2>2
<1>6. /\ request' \in [Sessions -> [event : Events \cup {NoEvent}, target : Targets, version : Nat]]
      /\ request'[s] = NoRequest
      /\ \A q \in Sessions \ {s} : request'[q] = request[q]
  BY <1>1, <1>2 DEF TypeOK, NoRequest, Targets
<1>7. TypeOK' /\ RowsKept
  BY <1>1, <1>2, <1>5, <1>6, TransitionRows DEF TypeOK
<1>8. RequestInv(s)'
  BY <1>6 DEF RequestInv
<1>9. \A q \in Sessions : RequestInv(q)'
  BY <1>1, <1>6, <1>7, <1>8, RequestsKeep
<1> QED BY <1>2, <1>3, <1>5, <1>7, <1>9, CitizenKeeps

-------------------------------------------------------------------------------
(* The invariant is inductive *)

LEMMA InvInit == Init => IInv
<1> SUFFICES ASSUME Init PROVE IInv
  OBVIOUS
<1>1. TypeOK
  BY RowTypes DEF Init, TypeOK, PC, NoRequest, Targets
<1>2. \A e \in Events : notification[e] = Absent /\ item[e] = NewItem /\ pending[e] = {}
                        /\ handlings[e] = 0 /\ (\A c \in Channels : handed[e][c] = 0)
  BY DEF Init
<1>3. \A e \in Events : RowInv(e) /\ WorkInv(e) /\ HandedInv(e)
  BY <1>2 DEF RowInv, WorkInv, HandedInv
<1>4. \A h \in Handlers : pc[h] = "idle" /\ event[h] = NoEvent /\ todo[h] = {}
  BY DEF Init
<1>5. \A h \in Handlers : ListInv(h) /\ HandlerInv(h)
  BY <1>4 DEF ListInv, HandlerInv, Created, AtItem
<1>6. \A s \in Sessions : RequestInv(s)
  BY DEF Init, RequestInv
<1>7. LinksConsistent /\ ItemFollowsNotification
  BY <1>2, RowTypes DEF LinksConsistent, ItemFollowsNotification
<1> QED BY <1>1, <1>3, <1>5, <1>6, <1>7 DEF IInv

\* The steps, with the versions the citizen may send as numbers.
LEMMA StepCases ==
  ASSUME Next
  PROVE  \/ \E h \in Handlers, e \in Events : Ingest(h, e)
         \/ \E h \in Handlers : \/ Suppress(h) \/ Create(h) \/ FindActive(h) \/ FindItem(h)
                                \/ SupersedeItem(h) \/ Return(h) \/ Crash(h)
                                \/ (\E a \in todo[h] : SupersedeNotification(h, a))
                                \/ (\E c \in Channels : Deliver(h, c))
         \/ \E e \in Events, v \in Nat : MarkRead(e, v)
         \/ \E s \in Sessions, e \in Events, t \in Targets, v \in Nat : RequestTransition(s, e, t, v)
         \/ \E s \in Sessions : ApplyTransition(s)
<1>1. 1..(MaxReadAgain + 1) \subseteq Nat /\ 1..MaxItemVersion \subseteq Nat
  BY CenterAssumption
<1> QED BY <1>1 DEF Next, Step, Citizen

LEMMA InvStep == IInv /\ [Next]_vars => IInv'
<1> SUFFICES ASSUME IInv, [Next]_vars PROVE IInv'
  OBVIOUS
<1>1. CASE Next
  BY <1>1, StepCases, IngestKeeps, SuppressKeeps, CreateKeeps, FindActiveKeeps, FindItemKeeps,
     SupersedeItemKeeps, ReturnKeeps, CrashKeeps, SupersedeNotificationKeeps, DeliverKeeps,
     MarkReadKeeps, RequestKeeps, TransitionKeeps
<1>2. CASE UNCHANGED vars
  <2>1. UNCHANGED <<notification, item, pending, suppressed, pc, event, todo, obsolete, itemSeen,
                    request, created, handed, handlings, refused, crashed>>
    BY <1>2 DEF vars, rowVars, handlerVars, historyVars
  <2>2. TypeOK' /\ RowsKept
    BY <2>1, SameRows DEF IInv, TypeOK
  <2>3. \A s \in Sessions : RequestInv(s)'
    BY <2>1, <2>2, RequestsKeep DEF IInv
  <2> QED BY <2>1, <2>2, <2>3, CitizenKeeps
<1> QED BY <1>1, <1>2

LEMMA RowsStep == IInv /\ [Next]_vars => RowsKept
<1> SUFFICES ASSUME IInv, [Next]_vars PROVE RowsKept
  OBVIOUS
<1>0. TypeOK
  BY DEF IInv
<1>1. CASE UNCHANGED vars
  BY <1>0, <1>1, SameRows DEF vars, rowVars
<1>2. ASSUME NEW h \in Handlers,
             \/ Suppress(h) \/ FindActive(h) \/ FindItem(h) \/ Return(h) \/ Crash(h)
             \/ (\E c \in Channels : Deliver(h, c)) \/ (\E e \in Events : Ingest(h, e))
      PROVE  RowsKept
  BY <1>0, <1>2, SameRows
     DEF Suppress, FindActive, FindItem, Return, Crash, Deliver, Ingest, rowVars
<1>3. ASSUME NEW s \in Sessions, NEW e \in Events, NEW t \in Targets, NEW v \in Nat,
             RequestTransition(s, e, t, v)
      PROVE  RowsKept
  BY <1>0, <1>3, SameRows DEF RequestTransition, rowVars
<1>4. CASE Next
  BY <1>2, <1>3, <1>4, StepCases, CreateRows, SupersedeRows, SupersedeItemRows, MarkReadRows,
     TransitionRows
<1> QED BY <1>1, <1>4

-------------------------------------------------------------------------------
(* Theorems *)

\* The invariant above holds in every reachable state, for any events, handlers, sessions
\* and channels.
THEOREM CenterInvariance == Spec => []IInv
BY InvInit, InvStep, PTL DEF Spec

\* The types of the rows and of what handlers and requests remember.
THEOREM CenterTypeCorrectness == Spec => []TypeOK
<1>1. IInv => TypeOK
  BY DEF IInv
<1> QED BY <1>1, CenterInvariance, PTL

\* A supersession leaves notifications and items that belong together, whatever other
\* handlers and the citizen did between its updates.
THEOREM SupersessionIsConsistent == Spec => []SupersessionConsistent
<1>1. IInv => SupersessionConsistent
  BY DEF IInv, SupersessionConsistent
<1> QED BY <1>1, CenterInvariance, PTL

\* No event is lost unless a handling of it died, and no channel is served twice.
THEOREM EventsAreAccounted == Spec => []EveryEventAccounted
<1>1. IInv => EveryEventAccounted
  BY DEF IInv, WorkInv, HandedInv, EveryEventAccounted
<1> QED BY <1>1, CenterInvariance, PTL

\* A terminal item and a notification the citizen has read stay as they are.
THEOREM SettledStays == Spec => SettledIsKept
<1> DEFINE Settled == \A e \in Events :
             /\ item[e].status \in Immune => item'[e] = item[e]
             /\ notification[e].status = "READ" => notification'[e].status = "READ"
<1>1. IInv /\ [Next]_vars => [Settled]_vars
  BY RowsStep DEF RowsKept
<1> QED BY <1>1, CenterInvariance, PTL DEF Spec, SettledIsKept

================================================================================
