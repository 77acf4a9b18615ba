---------------------------- MODULE KeystoneAuth ----------------------------
(***************************************************************************)
(* The webhook k8s-keystone-auth (pkg/identity/keystone/keystone.go,       *)
(* authenticator.go, sync.go).  One process answers token reviews by       *)
(* asking Keystone, answers access reviews from a list of policies, and    *)
(* after a token review copies the user's roles to role bindings of the    *)
(* project's namespace.  The policies and the configuration of the copying *)
(* come from files or from two config maps, which an informer follows.     *)
(* All reviews share one Keystone client, and so its token.                *)
(*                                                                         *)
(* Every call to Keystone or Kubernetes is a step of its own.  A version   *)
(* of a config map stands for its contents; "missing" is a map that does   *)
(* not exist and "bad" one that does not parse.                            *)
(***************************************************************************)
EXTENDS KeystonePolicy, FiniteSets, Sequences

CONSTANTS
    Handlers,      \* the requests that can be in progress at a time
    Tokens,
    Owner,         \* Owner[t]: the user of a token and its project (None: unscoped)
    Groups,        \* Groups[u]: the user's groups in Keystone
    Roles,
    Assigned,      \* Assigned[t]: the roles a token has at first
    Policies,      \* Policies[v]: the policies of version v of the policy map
    Syncs,         \* Syncs[v]: the configuration of version v of the sync map
    Leftover,      \* the role bindings that an earlier process has made
    Installed,     \* the versions of the maps at first
    Reviews,       \* Reviews[r]: the user and the attributes of an access review
    Names,         \* the names of namespaces, resources and verbs in the reviews
    PolicyFile,    \* the version in the policy file, or None
    SyncFile,
    MaxTroubles    \* how often something goes wrong or is changed from outside

ASSUME ConstantsAssumption ==
  /\ None \notin Tokens \cup Roles \cup Handlers
  /\ MaxTroubles \in Nat
  /\ "missing" \notin DOMAIN Policies \cup DOMAIN Syncs
  /\ "bad" \notin DOMAIN Policies \cup DOMAIN Syncs

VARIABLES
    maps,          \* the config maps in Kubernetes: "policy" and "sync"
    seen,          \* the informer's cache of them
    queue, work,   \* the work queue; the key being worked on and what was read
    up,            \* "down", "starting" or "serving"
    pl, sc,        \* the versions in force: k.authz.pl and k.syncer.syncConfig
    client,        \* the token of the shared Keystone client
    mu,            \* who holds the syncer's mutex
    h,             \* the requests in progress
    valid, roles,  \* Keystone: the valid tokens and the roles they carry
    namespaces,    \* Kubernetes: the namespaces that exist
    bindings,      \* the role bindings: <<namespace, user, role>>
    synced,        \* history: the namespace and the roles last copied for a token
    missed,        \* history: maps deleted before the informer first listed them
    troubles

web == <<maps, seen, queue, work, up, pl, sc>>
keystone == <<valid, roles>>
kube == <<namespaces, bindings>>
vars == <<web, client, mu, h, keystone, kube, synced, missed, troubles>>

Maps == {"policy", "sync"}
Versions(m) == (IF m = "policy" THEN DOMAIN Policies ELSE DOMAIN Syncs) \cup {"missing", "bad"}

\* The list that a version stands for; a map that is missing or does not parse
\* leaves the empty list.
List(v) == IF v \in DOMAIN Policies THEN Policies[v] ELSE {}

\* Every token has its roles at first, and every map has a version; the file is a
\* version too.
ASSUME StartAssumption ==
  /\ Assigned \in [Tokens -> SUBSET Roles]
  /\ \A t \in Tokens : Owner[t] = [user |-> Owner[t].user, project |-> Owner[t].project]
  /\ Installed = [m \in Maps |-> Installed[m]] /\ \A m \in Maps : Installed[m] \in Versions(m)
  /\ None \notin Versions("policy")

\* Policies and reviews can be written.
ASSUME PoliciesAssumption ==
  /\ \A v \in DOMAIN Policies : \A p \in Policies[v] : WellFormed(p)
  /\ \A r \in DOMAIN Reviews : Asks(Reviews[r].a, Names)

newSyncConfig == [types |-> {}, apart |-> TRUE, known |-> TRUE, black |-> {}, roleMaps |-> <<>>]

Config(v) == IF v \in DOMAIN Syncs THEN Syncs[v] ELSE newSyncConfig

\* apart: the format of the namespaces' names holds the project's id; known: only
\* the known types of data are to be copied.
validate(v) == Config(v).apart /\ Config(v).known

\* A name that is too long is replaced by the project's id.
formatNamespaceName(v, project) == IF Config(v).apart THEN project ELSE "shared"

Idle == [pc |-> "idle"]
Trouble == troubles < MaxTroubles /\ troubles' = troubles + 1
NoTrouble == UNCHANGED troubles

At(c, pc) == h[c].pc = pc
Goto(c, pc) == h' = [h EXCEPT ![c].pc = pc]

-----------------------------------------------------------------------------
(* Start: NewKeystoneAuth and Run up to the first list of the informer *)

\* The file is read after the map and replaces it; both maps must be there and parse.
NewKeystoneAuth ==
  /\ up = "down"
  /\ {maps["policy"], maps["sync"]} \cap {"missing", "bad"} = {}
  /\ LET conf == IF SyncFile = None THEN maps["sync"] ELSE SyncFile IN
     validate(conf) /\ sc' = conf
  /\ pl' = IF PolicyFile = None THEN maps["policy"] ELSE PolicyFile
  /\ up' = "starting"
  /\ UNCHANGED <<maps, seen, queue, work, client, mu, h, keystone, kube, synced, missed, troubles>>

\* The informer's list adds the maps that exist to the queue; then the worker
\* and the web server start.
Run ==
  /\ up = "starting"
  /\ up' = "serving"
  /\ seen' = maps
  /\ queue' = {m \in Maps : maps[m] # "missing"}
  /\ missed' = {m \in Maps : maps[m] = "missing"}
  /\ UNCHANGED <<maps, work, pl, sc, client, mu, h, keystone, kube, synced, troubles>>

\* The process dies with everything it had in memory.
Crash ==
  /\ up # "down" /\ Trouble
  /\ up' = "down"
  /\ queue' = {} /\ work' = None
  /\ client' = None /\ mu' = None
  /\ h' = [c \in Handlers |-> Idle]
  /\ missed' = {}
  /\ UNCHANGED <<maps, seen, pl, sc, keystone, kube, synced>>

-----------------------------------------------------------------------------
(* The config maps *)

\* An event of the informer; a resync that changes nothing is left out.
enqueueConfigMap(m) ==
  /\ up = "serving" /\ seen[m] # maps[m]
  /\ seen' = [seen EXCEPT ![m] = maps[m]]
  /\ queue' = queue \cup {m}
  /\ missed' = missed \ {m}
  /\ UNCHANGED <<maps, work, up, pl, sc, client, mu, h, keystone, kube, synced, troubles>>

\* The worker takes a key and reads the map from the informer's cache.
processNextItem ==
  /\ up = "serving" /\ work = None
  /\ \E m \in queue : work' = [key |-> m, got |-> seen[m]] /\ queue' = queue \ {m}
  /\ UNCHANGED <<maps, seen, up, pl, sc, client, mu, h, keystone, kube, synced, missed, troubles>>

\* Every review that is in progress now sees this version too.
Witnessed(v) == [c \in Handlers |->
                   IF At(c, "authorize") THEN [h[c] EXCEPT !.lists = @ \cup {v}] ELSE h[c]]

updatePolicies ==
  /\ pl' = work.got
  /\ h' = Witnessed(work.got)
  /\ UNCHANGED sc

\* The new configuration is not validated.
updateSyncConfig ==
  /\ mu = None
  /\ sc' = work.got
  /\ UNCHANGED <<pl, h>>

\* Mutant of processItem: a map that was deleted is left in force.
processItemKept ==
  /\ work # None
  /\ IF work.got = "missing" THEN UNCHANGED <<pl, sc, h>>
     ELSE IF work.key = "policy" THEN updatePolicies ELSE updateSyncConfig
  /\ work' = None
  /\ UNCHANGED <<maps, seen, queue, up, client, mu, keystone, kube, synced, missed, troubles>>

\* A map that is gone leaves the empty list, or the default configuration.
processItem ==
  /\ work # None
  /\ IF work.key = "policy" THEN updatePolicies ELSE updateSyncConfig
  /\ work' = None
  /\ UNCHANGED <<maps, seen, queue, up, client, mu, keystone, kube, synced, missed, troubles>>

-----------------------------------------------------------------------------
(* Token reviews *)

User(t) == Owner[t].user
Project(t) == Owner[t].project

\* What Keystone would have said of the token during the review.
Current(t) == IF t \in valid THEN {roles[t]} ELSE {}

Asking(c) == h[c].pc \in {"begin", "info", "groups"}

\* Another review that asks Keystone at the same time.
Overlapping(c) == \E d \in Handlers \ {c} : Asking(d)

TokenReview(c, t) ==
  /\ up = "serving" /\ At(c, "idle")
  /\ h' = [d \in Handlers |->
             IF d = c THEN [pc |-> "begin", tok |-> t, roles |-> {}, had |-> Current(t),
                            excused |-> t \notin valid \/ Overlapping(c)]
             ELSE IF Asking(d) THEN [h[d] EXCEPT !.excused = TRUE] ELSE h[d]]
  /\ UNCHANGED <<web, client, mu, keystone, kube, synced, missed, troubles>>

\* GetTokenInfo sets the token of the shared client first.
SetToken(c) ==
  /\ At(c, "begin")
  /\ client' = h[c].tok
  /\ Goto(c, "info")
  /\ UNCHANGED <<web, mu, keystone, kube, synced, missed, troubles>>

Denied(c) == [pc |-> "denied", tok |-> h[c].tok, had |-> h[c].had, excused |-> h[c].excused]

\* Mutant of GetTokenInfo: the token that is asked about is the client's.
GetTokenInfoOfClient(c) ==
  /\ At(c, "info")
  /\ IF client \in valid
       THEN h' = [h EXCEPT ![c].pc = "groups", ![c].roles = roles[client]] /\ client' = h[c].tok
       ELSE h' = [h EXCEPT ![c] = Denied(c)] /\ UNCHANGED client
  /\ NoTrouble
  /\ UNCHANGED <<web, mu, keystone, kube, synced, missed>>

\* The request asks about the review's token in the name of the client's.  A token
\* without a project makes the handler panic, which ends the request unanswered.
\* On success GetGroups sets the client's token again.
GetTokenInfo(c) ==
  /\ At(c, "info")
  /\ LET t == h[c].tok IN
     \/ /\ {t, client} \subseteq valid
        /\ Project(t) # None
        /\ h' = [h EXCEPT ![c].pc = "groups", ![c].roles = roles[t]]
        /\ client' = t
        /\ NoTrouble
     \/ /\ {t, client} \subseteq valid
        /\ Project(t) = None
        /\ h' = [h EXCEPT ![c] = Idle]
        /\ UNCHANGED client
        /\ NoTrouble
     \/ /\ ~({t, client} \subseteq valid)
        /\ h' = [h EXCEPT ![c] = Denied(c)]
        /\ UNCHANGED client
        /\ NoTrouble
     \/ /\ Trouble
        /\ h' = [h EXCEPT ![c] = [Denied(c) EXCEPT !.excused = TRUE]]
        /\ UNCHANGED client
  /\ UNCHANGED <<web, mu, keystone, kube, synced, missed>>

\* Keystone lists a user's groups for that user only.
GetGroups(c) ==
  /\ At(c, "groups")
  /\ LET t == h[c].tok IN
     \/ /\ client \in valid /\ User(client) = User(t)
        /\ Goto(c, "answer")
        /\ NoTrouble
     \/ /\ ~(client \in valid /\ User(client) = User(t))
        /\ h' = [h EXCEPT ![c] = Denied(c)]
        /\ NoTrouble
     \/ /\ Trouble
        /\ h' = [h EXCEPT ![c] = [Denied(c) EXCEPT !.excused = TRUE]]
  /\ UNCHANGED <<web, client, mu, keystone, kube, synced, missed>>

\* The identity that the token's information and the groups make; the project
\* counts as a group.
AuthenticateToken(t) == [name |-> User(t), groups |-> Groups[User(t)] \cup {Project(t)}]

\* The role mappings of the configuration add groups and may change the name.
\* The last mapping that applies names the user.
syncRoles(info, has) ==
  LET apply == SelectSeq(Config(sc).roleMaps, LAMBDA m : m.role \in has)
      named == SelectSeq(apply, LAMBDA m : m.name # None) IN
  [name |-> IF named = <<>> THEN info.name ELSE named[Len(named)].name,
   groups |-> info.groups \cup UNION {apply[i].groups : i \in DOMAIN apply}]

authenticateToken(c) ==
  /\ At(c, "answer")
  /\ LET t == h[c].tok
         info == syncRoles(AuthenticateToken(t), h[c].roles) IN
     h' = [h EXCEPT ![c] = [pc |-> "answered", tok |-> t, roles |-> h[c].roles, had |-> h[c].had,
                            name |-> info.name, groups |-> info.groups]]
  /\ UNCHANGED <<web, client, mu, keystone, kube, synced, missed, troubles>>

\* After the answer: go on to the copying if it is configured.
Handler(c) ==
  /\ At(c, "answered")
  /\ h' = [h EXCEPT ![c] = IF Config(sc).types # {}
                             THEN [pc |-> "sync", tok |-> h[c].tok, roles |-> h[c].roles]
                             ELSE Idle]
  /\ UNCHANGED <<web, client, mu, keystone, kube, synced, missed, troubles>>

\* A denied review, or an answered access review, is over.
Finish(c) ==
  /\ h[c].pc \in {"denied", "decided"}
  /\ h' = [h EXCEPT ![c] = Idle]
  /\ UNCHANGED <<web, client, mu, keystone, kube, synced, missed, troubles>>

-----------------------------------------------------------------------------
(* Copying the roles: syncData, under the syncer's mutex *)

Namespace(c) == formatNamespaceName(sc, Project(h[c].tok))
Mine(c) == {r \in Roles : <<Namespace(c), User(h[c].tok), r>> \in bindings}

Unlock(c) == mu' = None /\ h' = [h EXCEPT ![c] = Idle]

\* The tokens of the same user and project.
Alike(t) == {x \in Tokens : Owner[x] = Owner[t]}

\* A project on the black list is left alone.
syncData(c) ==
  /\ At(c, "sync") /\ mu = None
  /\ LET t == h[c].tok IN
     IF Project(t) \in Config(sc).black
       THEN h' = [h EXCEPT ![c] = Idle] /\ UNCHANGED <<mu, synced>>
       ELSE /\ mu' = c
            /\ Goto(c, IF "projects" \in Config(sc).types THEN "namespace" ELSE "list")
            /\ synced' = [x \in Tokens |->
                 IF x = t THEN [ns |-> Namespace(c), roles |-> h[c].roles, done |-> FALSE]
                 ELSE IF x \in Alike(t) THEN None ELSE synced[x]]
  /\ UNCHANGED <<web, client, keystone, kube, missed, troubles>>

\* Get the project's namespace and create it if it is not found.
AfterProject(c) == IF "role_assignments" \in Config(sc).types THEN Goto(c, "list") /\ UNCHANGED mu
                   ELSE Unlock(c)

syncProjectData(c) ==
  /\ At(c, "namespace")
  /\ \/ /\ Namespace(c) \in namespaces
        /\ AfterProject(c)
        /\ NoTrouble
     \/ /\ Namespace(c) \notin namespaces
        /\ Goto(c, "create")
        /\ NoTrouble /\ UNCHANGED mu
     \/ Trouble /\ Unlock(c)
  /\ UNCHANGED <<web, client, keystone, kube, synced, missed>>

\* A call may fail and yet have been carried out.
CreateNamespace(c) ==
  /\ At(c, "create")
  /\ \/ /\ Namespace(c) \notin namespaces
        /\ namespaces' = namespaces \cup {Namespace(c)}
        /\ AfterProject(c)
        /\ NoTrouble
     \/ /\ Trouble
        /\ namespaces' \in {namespaces, namespaces \cup {Namespace(c)}}
        /\ Unlock(c)
  /\ UNCHANGED <<web, client, keystone, bindings, synced, missed>>

\* List the bindings; those named after the user are the user's.
ListRoleBindings(c) ==
  /\ At(c, "list")
  /\ \/ /\ h' = [h EXCEPT ![c] = [pc |-> "bind", tok |-> h[c].tok, roles |-> h[c].roles,
                                  drop |-> Mine(c) \ h[c].roles, add |-> h[c].roles \ Mine(c)]]
        /\ NoTrouble /\ UNCHANGED mu
     \/ Trouble /\ Unlock(c)
  /\ UNCHANGED <<web, client, keystone, kube, synced, missed>>

\* Mutant of DeleteRoleBinding: bindings of the role are deleted whoever's they are.
DeleteRoleBindingOfAll(c) ==
  /\ At(c, "bind") /\ h[c].drop # {}
  /\ \E r \in h[c].drop :
       /\ bindings' = {b \in bindings : ~(b[1] = Namespace(c) /\ b[3] = r)}
       /\ h' = [h EXCEPT ![c].drop = @ \ {r}]
       /\ NoTrouble /\ UNCHANGED mu
  /\ UNCHANGED <<web, client, keystone, namespaces, synced, missed>>

\* Delete the user's bindings whose roles Keystone no longer reports, one by one.
DeleteRoleBinding(c) ==
  /\ At(c, "bind") /\ h[c].drop # {}
  /\ \E r \in h[c].drop :
     LET b == <<Namespace(c), User(h[c].tok), r>> IN
     \/ /\ b \in bindings
        /\ bindings' = bindings \ {b}
        /\ h' = [h EXCEPT ![c].drop = @ \ {r}]
        /\ NoTrouble /\ UNCHANGED mu
     \/ b \notin bindings /\ Unlock(c) /\ NoTrouble /\ UNCHANGED bindings
     \/ Trouble /\ bindings' \in {bindings, bindings \ {b}} /\ Unlock(c)
  /\ UNCHANGED <<web, client, keystone, namespaces, synced, missed>>

\* Create the bindings that were not in the list, one by one.
CreateRoleBinding(c) ==
  /\ At(c, "bind") /\ h[c].drop = {} /\ h[c].add # {}
  /\ \E r \in h[c].add :
     LET b == <<Namespace(c), User(h[c].tok), r>> IN
     \/ /\ Namespace(c) \in namespaces /\ b \notin bindings
        /\ bindings' = bindings \cup {b}
        /\ h' = [h EXCEPT ![c].add = @ \ {r}]
        /\ NoTrouble /\ UNCHANGED mu
     \/ Namespace(c) \notin namespaces /\ Unlock(c) /\ NoTrouble /\ UNCHANGED bindings
     \/ Trouble /\ Namespace(c) \in namespaces
          /\ bindings' \in {bindings, bindings \cup {b}} /\ Unlock(c)
  /\ UNCHANGED <<web, client, keystone, namespaces, synced, missed>>

\* Everything is copied.
syncRoleAssignmentsData(c) ==
  /\ At(c, "bind") /\ h[c].drop = {} /\ h[c].add = {}
  /\ synced' = [synced EXCEPT ![h[c].tok] = IF @ = None THEN None ELSE [@ EXCEPT !.done = TRUE]]
  /\ Unlock(c)
  /\ UNCHANGED <<web, client, keystone, kube, missed, troubles>>

-----------------------------------------------------------------------------
(* Access reviews.  The request is any of Reviews: allowed holds those that  *)
(* would be allowed.                                                         *)

\* What Authorize decides with each version of the list.
Decisions == [v \in (Versions("policy") \cup {PolicyFile}) \ {None} |->
                {r \in DOMAIN Reviews : Authorize(List(v), Reviews[r].user, Reviews[r].a)}]

Decided(lists, allowed) == [pc |-> "decided", lists |-> lists, allowed |-> allowed]

\* Whether there are policies is read before the lock is taken.
authorizeToken(c) ==
  /\ up = "serving" /\ At(c, "idle")
  /\ h' = [h EXCEPT ![c] = IF List(pl) = {} THEN Decided({pl}, {})
                             ELSE [pc |-> "authorize", lists |-> {pl}]]
  /\ UNCHANGED <<web, client, mu, keystone, kube, synced, missed, troubles>>

Decide(c) ==
  /\ At(c, "authorize")
  /\ h' = [h EXCEPT ![c] = Decided(h[c].lists, Decisions[pl])]
  /\ UNCHANGED <<web, client, mu, keystone, kube, synced, missed, troubles>>

-----------------------------------------------------------------------------
(* What others do: external *)

\* The maps are edited, deleted or created again.
EditMap ==
  /\ Trouble
  /\ \E m \in Maps : \E v \in Versions(m) \ {maps[m]} : maps' = [maps EXCEPT ![m] = v]
  /\ UNCHANGED <<seen, queue, work, up, pl, sc, client, mu, h, keystone, kube, synced, missed>>

\* Keystone changes the roles of a token, or no longer accepts it.
EditToken ==
  /\ Trouble
  /\ \E t \in valid :
       \/ valid' = valid \ {t} /\ UNCHANGED roles
       \/ \E rs \in SUBSET Roles \ {roles[t]} : roles' = [roles EXCEPT ![t] = rs] /\ UNCHANGED valid
  /\ h' = [c \in Handlers |->
             IF Asking(c)
               THEN [h[c] EXCEPT !.had = @ \cup (IF h[c].tok \in valid' THEN {roles'[h[c].tok]} ELSE {}),
                                 !.excused = @ \/ h[c].tok \notin valid']
               ELSE h[c]]
  /\ UNCHANGED <<web, client, mu, kube, synced, missed>>

\* An administrator deletes a namespace with all it holds.
DeleteNamespace ==
  /\ Trouble
  /\ \E n \in namespaces :
       /\ namespaces' = namespaces \ {n}
       /\ bindings' = {b \in bindings : b[1] # n}
       /\ synced' = [t \in Tokens |-> IF synced[t] # None /\ synced[t].ns = n THEN None ELSE synced[t]]
  /\ UNCHANGED <<web, client, mu, h, keystone, missed>>

-----------------------------------------------------------------------------

Init ==
  /\ maps = Installed
  /\ seen = [m \in Maps |-> "missing"]
  /\ queue = {} /\ work = None
  /\ up = "down" /\ pl = "missing" /\ sc = "missing"
  /\ client = None /\ mu = None
  /\ h = [c \in Handlers |-> Idle]
  /\ valid = Tokens
  /\ roles = Assigned
  /\ bindings = Leftover /\ namespaces = {b[1] : b \in Leftover}
  /\ synced = [t \in Tokens |-> None]
  /\ missed = {}
  /\ troubles = 0

Background == NewKeystoneAuth \/ Run \/ processNextItem \/ \E m \in Maps : enqueueConfigMap(m)

Step(c) ==
  \/ SetToken(c) \/ GetTokenInfo(c) \/ GetGroups(c) \/ authenticateToken(c) \/ Handler(c)
  \/ Finish(c) \/ syncData(c) \/ syncProjectData(c) \/ CreateNamespace(c)
  \/ ListRoleBindings(c) \/ DeleteRoleBinding(c) \/ CreateRoleBinding(c)
  \/ syncRoleAssignmentsData(c) \/ Decide(c)

Next ==
  \/ Background \/ processItem \/ Crash
  \/ \E c \in Handlers :
       \/ Step(c)
       \/ authorizeToken(c)
       \/ \E t \in Tokens : TokenReview(c, t)
  \/ EditMap \/ EditToken \/ DeleteNamespace

Spec == Init /\ [][Next]_vars

\* The goroutines of the process go on, and a mutex is granted to whoever waits.
Fairness ==
  /\ WF_vars(Background)
  /\ SF_vars(processItem)
  /\ \A c \in Handlers : WF_vars(Step(c))

FairSpec == Spec /\ Fairness

-----------------------------------------------------------------------------
(* Properties *)

Meanings == [v \in DOMAIN Decisions |->
                {r \in DOMAIN Reviews : Meant(List(v), Reviews[r].user, Reviews[r].a, Names)}]

\* An access review (authorizeToken) is answered as the policies mean it, by a list
\* that was in force while the review was in progress: never allowed for want of
\* a list, and never by a mixture of two lists.
DecidedByPolicy ==
  \A c \in Handlers : At(c, "decided") =>
    \A r \in DOMAIN Reviews : \E v \in h[c].lists : (r \in h[c].allowed) = (r \in Meanings[v])

\* A token review (AuthenticateToken) that is answered yes reports the token's own
\* user, with roles the token had while the review was in progress, and the groups
\* that include the project; one that is answered no was of a token that was not
\* valid, met a fault, or overlapped with another review on the shared client.
ReviewedIsValid ==
  \A c \in Handlers :
    /\ At(c, "answered") =>
         /\ h[c].roles \in h[c].had
         /\ Groups[User(h[c].tok)] \cup {Project(h[c].tok)} \subseteq h[c].groups
    /\ At(c, "denied") => h[c].excused

\* Once syncData has copied a user's roles to the project's namespace, the user's
\* role bindings there stay those roles until the next copy for that user and
\* project: whatever reviews of other users, failed calls, crashes and changes of
\* the configuration come in between.  Namespaces whose name does not hold the
\* project's id are excepted.
BindingsAsCopied ==
  \A t \in Tokens : (synced[t] # None /\ synced[t].done /\ synced[t].ns # "shared") =>
    {r \in Roles : <<synced[t].ns, User(t), r>> \in bindings} = synced[t].roles

\* The policies and the sync configuration in force follow the config maps
\* (processItem): a map that is deleted or does not parse leaves no policies.  Lost
\* is only the deletion of a map between the start and the informer's first list.
ConfigFollows ==
  <>[](up = "serving" => \A m \in Maps \ missed : (IF m = "policy" THEN pl ELSE sc) = maps[m])

=============================================================================
