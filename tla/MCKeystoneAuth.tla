--------------------------- MODULE MCKeystoneAuth ---------------------------
(* Two users of one project and an unscoped token; a list of policies of      *)
(* version 1 and one of version 2; four sync configurations, one of which     *)
(* puts all projects into one namespace.                                      *)
EXTENDS KeystoneAuth

CONSTANTS t1, t2, t3, h1, h2

def(neg, list, items) == [neg |-> neg, list |-> list, items |-> items, parses |-> TRUE]
Key(ns, res, verbs) == [ns |-> ns, res |-> res, verbs |-> verbs]

NoPolicy == [users |-> None, resourcePermissions |-> None, nonresourcePermissions |-> None,
             resource |-> None, nonresource |-> None, match |-> {}]

MCLower == [v \in {"get", "GET", "list", "*"} |-> IF v = "GET" THEN "get" ELSE v]
MCNames == [ns |-> {"default", "kube"}, res |-> {"pods", "nodes"}, verbs |-> {"get", "list"}]

MCPolicies ==
  [spec |-> {[NoPolicy EXCEPT !.resource = [group |-> "*", ns |-> "default", verbs |-> {"get"},
                                            resources |-> {<<"pods", "">>, <<"pods", "exec">>}],
                              !.match = {[type |-> "role", values |-> {"admin"}],
                                         [type |-> "project", values |-> {"A", "B"}]}],
             [NoPolicy EXCEPT !.nonresource = [verbs |-> {"get"}, path |-> "/api*", below |-> {"/api"}],
                              !.match = {[type |-> "group", values |-> {"dev"}]}]},
   perm |-> {[NoPolicy EXCEPT !.users = [roles |-> {"member"}, projects |-> {"A"}],
                !.resourcePermissions =
                   {Key(def(TRUE, FALSE, {"kube"}), def(FALSE, TRUE, {"pods", "nodes"}), {"GET"}),
                    Key(def(TRUE, TRUE, {"default"}), def(TRUE, FALSE, {"nodes"}), {"*"}),
                    Key(def(FALSE, FALSE, {"*"}), def(FALSE, FALSE, {"nodes"}), {"list"}),
                    Key(None, None, {"*"}),
                    Key([def(FALSE, TRUE, {}) EXCEPT !.parses = FALSE], def(FALSE, TRUE, {"*"}), {"*"})},
                !.nonresourcePermissions = {[path |-> "/api", verbs |-> {"list"}]}]}]

MCSyncs ==
  [all |-> [newSyncConfig EXCEPT !.types = {"projects", "role_assignments"},
              !.roleMaps = <<[role |-> "admin", name |-> "root", groups |-> {"ops"}]>>],
   one |-> [newSyncConfig EXCEPT !.types = {"projects", "role_assignments"}, !.apart = FALSE],
   few |-> [newSyncConfig EXCEPT !.types = {"role_assignments"}],
   none |-> [newSyncConfig EXCEPT !.types = {"projects"}, !.black = {"A"}]]

someone(rs) == [name |-> "u1", uid |-> "u1", groups |-> {"dev"}, roles |-> rs, projects |-> {"A"}, extra |-> TRUE]
request(ns, res, sub, verb) ==
  [isResource |-> TRUE, group |-> "", ns |-> ns, res |-> res, sub |-> sub, verb |-> verb, path |-> ""]

Ask(rs, a) == [user |-> someone(rs), a |-> a]
Path(verb) == [request("", "", "", verb) EXCEPT !.isResource = FALSE, !.path = "/api"]

MCReviews ==
  <<Ask({"admin", "member"}, request("default", "pods", "", "get")),
    Ask({"admin"}, request("default", "pods", "exec", "get")),
    Ask({"admin"}, request("default", "nodes", "", "get")),
    Ask({"member"}, request("default", "nodes", "", "get")),
    Ask({"member"}, request("kube", "pods", "", "list")),
    Ask({"member"}, request("kube", "nodes", "", "get")),
    Ask({"member"}, request("kube", "nodes", "", "list")),
    Ask({"member"}, request("", "nodes", "", "list")),
    Ask({"member"}, request("", "pods", "", "get")),
    Ask({}, Path("get")),
    Ask({"member"}, Path("list")),
    [Ask({"admin", "member"}, request("default", "pods", "", "get")) EXCEPT !.user.extra = FALSE]>>

MCInstalled == [m \in Maps |-> IF m = "policy" THEN "perm" ELSE "all"]
MCLeftover == {<<"A", "u1", "member">>, <<"A", "u2", "admin">>}
MCAssigned == [t \in Tokens |-> IF t = t1 THEN {"admin"} ELSE {"member"}]

MCOwner == [t \in Tokens |-> IF t = t3 THEN [user |-> "u3", project |-> None]
                             ELSE [user |-> IF t = t1 THEN "u1" ELSE "u2", project |-> "A"]]
MCGroups == [u \in {"u1", "u2", "u3"} |-> {"dev"}]

\* The first handler serves the first token, the second the others; access reviews,
\* which share nothing with token reviews, and the unscoped token come when there are none.
Choice ==
  /\ ~At(h1, "authorize") /\ ~At(h1, "decided")
  /\ "tok" \in DOMAIN h[h1] => h[h1].tok = t1
  /\ "tok" \in DOMAIN h[h2] => h[h2].tok # t1
  /\ At(h2, "authorize") \/ At(h2, "decided") => At(h1, "idle")
  /\ "tok" \in DOMAIN h[h2] /\ h[h2].tok = t3 => At(h1, "idle")
MCNext == Next /\ Choice'
MCSpec == Init /\ [][MCNext]_vars /\ Fairness
=============================================================================
