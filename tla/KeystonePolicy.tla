--------------------------- MODULE KeystonePolicy ---------------------------
(***************************************************************************)
(* The authorization policies of k8s-keystone-auth                         *)
(* (pkg/identity/keystone/authorizer.go): which requests a list of         *)
(* policies allows to whom.  A policy is a record of the parts of its JSON *)
(* form; a part that is missing is None.  The text of a definition such as *)
(* "!['a', 'b']" is a record of what it says:                              *)
(*   [neg |-> TRUE, list |-> TRUE, items |-> {"a", "b"}, parses |-> TRUE]  *)
(* A resource "pods/exec" is <<"pods", "exec">>, "pods" is <<"pods", "">>. *)
(***************************************************************************)
EXTENDS Naturals

CONSTANTS
    None,
    Lower        \* the lower-case form of the verbs that policies are written with

\* The definition "*".
Everything == [neg |-> FALSE, list |-> FALSE, items |-> {"*"}, parses |-> TRUE]

Refused == [err |-> TRUE, names |-> {}]
Admits(names) == [err |-> FALSE, names |-> names]

\* Mutant of getAllowed: the exceptions of a list are those that are allowed.
getAllowedListed(def, str) ==
  IF str \in def.items \/ "*" \in def.items \/ str = "" THEN Admits({str}) ELSE Admits({})

\* The names that a definition lets pass when asked about str.  The empty name
\* passes every definition.
getAllowed(def, str) ==
  LET hit == str \in def.items \/ "*" \in def.items IN
  IF str = "" THEN Admits({str})
  ELSE CASE ~def.list /\ ~def.neg -> Admits(IF hit THEN {str} ELSE {})
         [] ~def.list /\ def.neg -> IF hit THEN Refused ELSE Admits({str})
         [] def.list /\ ~def.parses -> Refused
         [] def.list /\ def.parses /\ ~def.neg -> Admits(def.items \cup (IF "*" \in def.items THEN {str} ELSE {}))
         [] OTHER -> IF hit THEN Refused ELSE Admits({str})

AnyVerb(verbs, verb) == verb \in verbs \/ "*" \in verbs

\* A key that is not of the form "namespace/resource" has no parts.
resourcePermissionAllowed(permissions, a) ==
  \E key \in permissions :
    /\ key.ns # None
    /\ a.ns = "" => key.ns = Everything
    /\ LET ns == getAllowed(key.ns, a.ns)
           res == getAllowed(key.res, a.res) IN
       /\ ~ns.err /\ ~res.err
       /\ a.ns \in ns.names /\ a.res \in res.names
    /\ AnyVerb({Lower[v] : v \in key.verbs}, a.verb)

nonResourcePermissionAllowed(permissions, a) ==
  \E key \in permissions : key.path = a.path /\ AnyVerb(key.verbs, a.verb)

\* Every match must hold, each with one of its values.
match(matches, user) ==
  \A m \in matches :
    /\ m.type \in {"group", "project", "role", "user"}
    /\ \/ "*" \in m.values
       \/ m.type = "group" /\ user.groups \cap m.values # {}
       \/ m.type = "user" /\ {user.name, user.uid} \cap m.values # {}
       \/ m.type = "project" /\ user.projects \cap m.values # {}
       \/ m.type = "role" /\ user.roles \cap m.values # {}

resourceMatches(p, user, a) ==
  LET spec == p.resource IN
  /\ spec.group \in {"*", a.group}
  /\ spec.ns \in {"*", a.ns}
  /\ \/ <<"*", "">> \in spec.resources
     \/ a.sub # "" /\ {<<a.res, "*">>, <<a.res, a.sub>>} \cap spec.resources # {}
     \/ a.sub = "" /\ <<a.res, "">> \in spec.resources
  /\ AnyVerb(spec.verbs, a.verb)
  /\ match(p.match, user)

\* below: the paths that begin like a path that ends in "*".
nonResourceMatches(p, user, a) ==
  LET spec == p.nonresource IN
  /\ "" \notin spec.verbs
  /\ spec.path # None
  /\ AnyVerb(spec.verbs, a.verb)
  /\ spec.path \in {"*", a.path} \/ a.path \in spec.below
  /\ match(p.match, user)

\* A policy for users wants all its roles and one of its projects.
Concerns(p, user) ==
  p.users # None => p.users.roles \subseteq user.roles /\ p.users.projects \cap user.projects # {}

\* The permissions of version 2 take precedence over the specs of version 1.
Allows(p, user, a) ==
  IF a.isResource
    THEN IF p.resourcePermissions # None
           THEN resourcePermissionAllowed(p.resourcePermissions, a)
           ELSE p.resource # None /\ resourceMatches(p, user, a)
    ELSE IF p.nonresourcePermissions # None
           THEN nonResourcePermissionAllowed(p.nonresourcePermissions, a)
           ELSE p.nonresource # None /\ nonResourceMatches(p, user, a)

\* A user without extra fields was not authenticated by Keystone.
Authorize(pl, user, a) ==
  user.extra /\ \E p \in pl : Concerns(p, user) /\ Allows(p, user, a)

-----------------------------------------------------------------------------
(* What the policies mean: a reference for Authorize *)

\* Policies and requests as they are written: no name is empty, and "*" is "*" in
\* lower case, as no other verb is.
WellFormed(p) ==
  p.resourcePermissions # None =>
    \A k \in p.resourcePermissions :
      k.ns # None =>
        /\ \A def \in {k.ns, k.res} : {def.neg, def.list, def.parses} \subseteq BOOLEAN /\ "" \notin def.items
        /\ \A v \in k.verbs : v \in DOMAIN Lower /\ (Lower[v] = "*" <=> v = "*")

\* A request for a resource has a verb, a resource and perhaps a namespace.
Asks(a, all) ==
  /\ "" \notin all.ns \cup all.res
  /\ a.isResource => a.ns \in all.ns \cup {""} /\ a.res \in all.res /\ a.verb \in all.verbs

\* The names, out of all of them, that a definition stands for.
Denotes(def, all) ==
  LET named == IF "*" \in def.items THEN all ELSE def.items IN
  IF def.list /\ ~def.parses THEN {}
  ELSE IF def.neg THEN all \ named ELSE named

\* The requests that version 2 of a policy grants, for given names of namespaces,
\* resources and verbs.  Only "*" stands for requests without a namespace.
Grants(permissions, all) ==
  UNION {((Denotes(k.ns, all.ns) \cup (IF k.ns = Everything THEN {""} ELSE {}))
            \X Denotes(k.res, all.res)
            \X (IF "*" \in k.verbs THEN all.verbs ELSE {Lower[v] : v \in k.verbs}))
         : k \in {x \in permissions : x.ns # None}}

Meant(pl, user, a, all) ==
  /\ user.extra
  /\ \E p \in pl :
       /\ Concerns(p, user)
       /\ IF a.isResource /\ p.resourcePermissions # None
            THEN <<a.ns, a.res, a.verb>> \in Grants(p.resourcePermissions, all)
            ELSE Allows(p, user, a)
=============================================================================
