------------------------------ MODULE NodeUsers ------------------------------
(***************************************************************************)
(* The node API (UniProxy): nodes pull the list of users they may serve    *)
(* and push the traffic they served (serverUniProxyUsers,                  *)
(* serverUniProxyPush, serverUniProxyAlive, availableUsersForNode and      *)
(* invalidateNodeUsersCache in src/internal/httpapi/server.go), while      *)
(* admins edit the rows of the nodes.                                      *)
(*                                                                         *)
(* A node's list is kept in Redis for 30 seconds.  A push deletes the keys *)
(* of all nodes, so that the next pull tells them the new usage; nothing   *)
(* else does, so a ban, a new plan or an edit of the node is told when the *)
(* key has gone.  A heartbeat writes the whole row of the node from a copy.*)
(*                                                                         *)
(* Abstractions: one user, of which the list tells whether it is there     *)
(* (not banned, not expired, in one of the node's plans) and its usage; a  *)
(* push reports one unit (what UpdateUser does to usage is in UserRows);   *)
(* the speed limits of the plans are left out, and so is the ETag, which   *)
(* saves sending a list the node has.  Authorisation is the row of the     *)
(* node; the server token is a setting (SettingsCache).  Of the row of a   *)
(* node, its plans stand for all that an admin edits.  Redis is there.     *)
(***************************************************************************)
EXTENDS Integers

CONSTANTS
  Requests,   \* requests that may be in flight together
  Nodes,      \* ids of nodes
  Hidden,     \* nodes that are not shown to users
  Miss,       \* what a key holds when it holds nothing
  CacheFails, \* may calls to Redis fail
  MaxUsed,    \* bound: units of traffic
  MaxEdits,   \* bound: edits of the user and of nodes
  MaxBeats    \* bound: heartbeats

Lists == [listed : BOOLEAN, used : 0 .. MaxUsed]

ASSUME NodeUsersAssumption ==
  /\ Nodes # {} /\ Hidden \subseteq Nodes
  /\ CacheFails \in BOOLEAN
  /\ MaxUsed \in Nat /\ MaxEdits \in Nat /\ MaxBeats \in Nat
  /\ Miss \notin Lists

VARIABLES
  servers, \* the table servers: each id is "new", "there" or "gone"
  admits,  \* the nodes whose plan_ids admit the user's plan
  active,  \* the user is neither banned nor expired
  used,    \* the user's u + d
  cache,   \* the keys node_users:<id>
  request, \* what each request is doing
  edits,   \* how many edits there were
  beats,   \* and how many heartbeats
  settled, \* history: traffic of pushes that were answered
  late     \* history: nodes whose key holds a list read before the latest traffic

nodesVars == <<servers, admits, active, used, cache, request, edits, beats, settled, late>>

\* The nodes that are there.
nodes == {n \in Nodes : servers[n] = "there"}

NoList == [listed |-> FALSE, used |-> 0]
NoRequest ==
  [pc |-> "idle", node |-> CHOOSE n \in Nodes : TRUE, admitted |-> FALSE, list |-> NoList,
   keys |-> {}, owed |-> 0, excused |-> FALSE, behind |-> FALSE]

\* The list as the tables have it.
Current(n) == IF n \in admits /\ active THEN [listed |-> TRUE, used |-> used] ELSE NoList

Become(p, o) == request' = [request EXCEPT ![p] = o]
Goto(p, pc) == Become(p, [request[p] EXCEPT !.pc = pc])
End(p) == Become(p, NoRequest)

-----------------------------------------------------------------------------
(* serverUniProxyUsers.                                                    *)

\* authorizeNodeRequest.  History: what the node is owed is the traffic of every
\* push that was answered before.
Pull(p, n) ==
  /\ request[p].pc = "idle" /\ n \in nodes
  /\ Become(p, [NoRequest EXCEPT !.pc = "get", !.node = n, !.owed = settled])
  /\ UNCHANGED <<servers, admits, active, used, cache, edits, beats, settled, late>>

\* Mutant: no list is a list too.
GetAnything(p) ==
  /\ request[p].pc = "get"
  /\ Become(p, [request[p] EXCEPT !.pc = "answer", !.list = cache[request[p].node],
                                  !.excused = request[p].node \in late])
  /\ UNCHANGED <<servers, admits, active, used, cache, edits, beats, settled, late>>
Get(p) ==
  /\ request[p].pc = "get"
  /\ LET cached == cache[request[p].node]
     IN \/ /\ cached # Miss
           /\ Become(p, [request[p] EXCEPT !.pc = "answer", !.list = cached,
                                           !.excused = request[p].node \in late])
        \/ /\ cached = Miss \/ CacheFails
           /\ Goto(p, "node")
  /\ UNCHANGED <<servers, admits, active, used, cache, edits, beats, settled, late>>

\* ServerByID once more, for the node's plans.
ReadNode(p) ==
  /\ request[p].pc = "node"
  /\ IF request[p].node \in nodes
     THEN Become(p, [request[p] EXCEPT !.pc = "users", !.admitted = request[p].node \in admits])
     ELSE End(p)
  /\ UNCHANGED <<servers, admits, active, used, cache, edits, beats, settled, late>>

\* ListAllUsers.
ReadUsers(p) ==
  /\ request[p].pc = "users"
  /\ Become(p, [request[p] EXCEPT !.pc = "fill",
                 !.list = IF request[p].admitted /\ active THEN [listed |-> TRUE, used |-> used]
                                                           ELSE NoList])
  /\ UNCHANGED <<servers, admits, active, used, cache, edits, beats, settled, late>>

Fill(p) ==
  /\ request[p].pc = "fill"
  /\ \/ /\ cache' = [cache EXCEPT ![request[p].node] = request[p].list]
        /\ late' = IF request[p].list.used < used THEN late \cup {request[p].node}
                                                  ELSE late \ {request[p].node}
     \/ CacheFails /\ UNCHANGED <<cache, late>>
  /\ Goto(p, "answer")
  /\ UNCHANGED <<servers, admits, active, used, edits, beats, settled>>

Answer(p) ==
  /\ request[p].pc = "answer"
  /\ End(p)
  /\ UNCHANGED <<servers, admits, active, used, cache, edits, beats, settled, late>>

-----------------------------------------------------------------------------
(* serverUniProxyPush.                                                     *)

Push(p, n) ==
  /\ request[p].pc = "idle" /\ n \in nodes
  /\ Become(p, [NoRequest EXCEPT !.pc = "add", !.node = n])
  /\ UNCHANGED <<servers, admits, active, used, cache, edits, beats, settled, late>>

\* AddTrafficByUserID, banned or not.
Add(p) ==
  /\ request[p].pc = "add"
  /\ used < MaxUsed
  /\ used' = used + 1
  /\ Become(p, [request[p] EXCEPT !.pc = "servers", !.owed = used + 1])
  /\ UNCHANGED <<servers, admits, active, cache, edits, beats, settled, late>>

\* Mutant: as for the users, who see the nodes that are shown.
ListServersShown(p) ==
  /\ request[p].pc = "servers"
  /\ Become(p, [request[p] EXCEPT !.pc = "delete", !.keys = nodes \ Hidden])
  /\ UNCHANGED <<servers, admits, active, used, cache, edits, beats, settled, late>>
\* invalidateNodeUsersCache: nodes that come after this are not told about.
ListServers(p) ==
  /\ request[p].pc = "servers"
  /\ Become(p, [request[p] EXCEPT !.pc = "delete", !.keys = nodes])
  /\ UNCHANGED <<servers, admits, active, used, cache, edits, beats, settled, late>>

\* One DEL for all keys, and the answer.
DeleteKeys(p) ==
  /\ request[p].pc = "delete"
  /\ \/ /\ cache' = [n \in Nodes |-> IF n \in request[p].keys THEN Miss ELSE cache[n]]
        /\ late' = late \ request[p].keys
     \/ /\ CacheFails
        /\ late' = late \cup {n \in request[p].keys : cache[n] # Miss /\ cache[n].used < used}
        /\ UNCHANGED cache
  /\ settled' = IF request[p].owed > settled THEN request[p].owed ELSE settled
  /\ End(p)
  /\ UNCHANGED <<servers, admits, active, used, edits, beats>>

-----------------------------------------------------------------------------
(* The rows of nodes.                                                      *)

Holding == {"beat", "save"}

\* UpdateServer: the plans of n become ids, if n is still there.
\* The requests in done are over then.  History: the copies of its row that others
\* hold are behind.
Update(done, n, ids) ==
  /\ admits' = IF n \in nodes THEN ids ELSE admits
  /\ request' = [q \in Requests |->
                   IF q \in done THEN NoRequest
                   ELSE IF request[q].pc \in Holding /\ request[q].node = n /\ n \in nodes
                   THEN [request[q] EXCEPT !.behind = TRUE]
                   ELSE request[q]]

With(n, admitted) == IF admitted THEN admits \cup {n} ELSE admits \ {n}

ReadRow(p, n, pc) ==
  /\ request[p].pc = "idle" /\ n \in nodes
  /\ Become(p, [NoRequest EXCEPT !.pc = pc, !.node = n, !.admitted = n \in admits])
  /\ UNCHANGED <<servers, admits, active, used, cache, edits, settled, late>>

\* serverUniProxyAlive: authorizeNodeRequest reads the row.
Alive(p, n) ==
  /\ beats < MaxBeats /\ beats' = beats + 1
  /\ ReadRow(p, n, "beat")

\* Mutant: the plans are not among what was read.
BeatWithout(p) ==
  /\ request[p].pc = "beat"
  /\ Update({p}, request[p].node, With(request[p].node, FALSE))
  /\ UNCHANGED <<servers, active, used, cache, edits, beats, settled, late>>
\* And the whole row is written back.
Beat(p) ==
  /\ request[p].pc = "beat"
  /\ Update({p}, request[p].node, With(request[p].node, request[p].admitted))
  /\ UNCHANGED <<servers, active, used, cache, edits, beats, settled, late>>

-----------------------------------------------------------------------------
(* What admins do.                                                         *)

Edit ==
  /\ edits < MaxEdits
  /\ edits' = edits + 1
  /\ UNCHANGED <<used, cache, beats, settled, late>>

\* A ban, its end, an expiry date: adminUserUpdate, adminUserBan.
EditUser == Edit /\ active' = ~active /\ UNCHANGED <<servers, admits, request>>

\* adminServerSave, adminServerManageSave and adminServerDrop; no id is used twice.
CreateNode(n) ==
  /\ Edit /\ servers[n] = "new"
  /\ servers' = [servers EXCEPT ![n] = "there"]
  /\ admits' \in {admits, admits \cup {n}}
  /\ UNCHANGED <<active, request>>

\* adminServerSave takes the whole row from the form.
EditNode(n) ==
  /\ Edit /\ n \in nodes
  /\ Update({}, n, With(n, n \notin admits))
  /\ UNCHANGED <<servers, active>>

\* adminServerManageSave edits a copy: the plans, or other fields only.
ManageRead(p, n) == edits < MaxEdits /\ ReadRow(p, n, "save") /\ UNCHANGED beats

ManageSave(p) ==
  /\ Edit /\ request[p].pc = "save"
  /\ \E admitted \in BOOLEAN : Update({p}, request[p].node, With(request[p].node, admitted))
  /\ UNCHANGED <<servers, active>>

DropNode(n) ==
  /\ Edit /\ n \in nodes
  /\ servers' = [servers EXCEPT ![n] = "gone"]
  /\ UNCHANGED <<admits, active, request>>

-----------------------------------------------------------------------------
(* What else happens.                                                      *)

\* The node's connection ends, or the program does.
HangUp(p) ==
  /\ request[p].pc # "idle"
  /\ End(p)
  /\ UNCHANGED <<servers, admits, active, used, cache, edits, beats, settled, late>>

\* The 30 seconds are over, or Redis is flushed.
Expire(n) ==
  /\ cache[n] # Miss
  /\ cache' = [cache EXCEPT ![n] = Miss]
  /\ late' = late \ {n}
  /\ UNCHANGED <<servers, admits, active, used, request, edits, beats, settled>>

-----------------------------------------------------------------------------
NodesInit ==
  /\ servers \in [Nodes -> {"new", "there"}] /\ admits = nodes
  /\ active = TRUE /\ used = 0 /\ edits = 0 /\ beats = 0
  /\ cache = [n \in Nodes |-> Miss]
  /\ request = [p \in Requests |-> NoRequest]
  /\ settled = 0 /\ late = {}

Step(p) ==
  \/ Get(p) \/ ReadNode(p) \/ ReadUsers(p) \/ Fill(p) \/ Answer(p)
  \/ Add(p) \/ ListServers(p) \/ DeleteKeys(p)
  \/ Beat(p) \/ ManageSave(p)

NodesNext ==
  \/ \E p \in Requests :
       \/ \E n \in Nodes : Pull(p, n) \/ Push(p, n) \/ Alive(p, n) \/ ManageRead(p, n)
       \/ Step(p)
       \/ HangUp(p)
  \/ EditUser
  \/ \E n \in Nodes : CreateNode(n) \/ EditNode(n) \/ DropNode(n) \/ Expire(n)

NodesSpec == NodesInit /\ [][NodesNext]_nodesVars

-----------------------------------------------------------------------------
(* Properties.                                                             *)

NodesTypeOK ==
  /\ servers \in [Nodes -> {"new", "there", "gone"}]
  /\ admits \subseteq Nodes /\ late \subseteq Nodes
  /\ active \in BOOLEAN
  /\ used \in 0 .. MaxUsed /\ settled \in 0 .. used
  /\ edits \in 0 .. MaxEdits /\ beats \in 0 .. MaxBeats
  /\ cache \in [Nodes -> [listed : BOOLEAN, used : 0 .. used] \cup {Miss}]
  /\ request \in [Requests ->
       [pc : {"idle", "get", "node", "users", "fill", "answer", "add", "servers", "delete",
              "beat", "save"},
        node : Nodes, admitted : BOOLEAN, list : Lists, keys : SUBSET Nodes,
        owed : 0 .. used, excused : BOOLEAN, behind : BOOLEAN]]

\* Once a push was answered, every node that pulls is told its traffic, a node
\* that was created while the push ran too.  The ways around that are a list
\* that was read before the traffic was added and stored after the keys were
\* deleted, and a DEL that failed.
PushIsTold ==
  \A p \in Requests :
    request[p].pc = "answer" /\ request[p].list.listed =>
      request[p].list.used >= request[p].owed \/ request[p].excused

\* What an admin last made of a node stays so until the next edit.  A heartbeat
\* takes it back only if it read the row before that edit and wrote it after.
EditsStick ==
  [][admits' # admits =>
       \/ edits' # edits
       \/ \E p \in Requests :
            request[p].pc = "beat" /\ request[p].behind /\ request'[p].pc = "idle"]_nodesVars

=============================================================================
