------------------------- MODULE KeystoneAuthProofs -------------------------
(***************************************************************************)
(* Proofs about KeystoneAuth, for any policies, tokens, users and number   *)
(* of requests in progress.                                                *)
(***************************************************************************)
EXTENDS KeystoneAuth, TLAPS

(* The policies *)

\* A definition lets a name pass that it stands for, and no other.
LEMMA AllowedIsDenoted ==
  ASSUME NEW def, {def.neg, def.list, def.parses} \subseteq BOOLEAN, NEW all, NEW str \in all, str # ""
  PROVE  (~getAllowed(def, str).err /\ str \in getAllowed(def, str).names) <=> str \in Denotes(def, all)
<1> DEFINE hit == str \in def.items \/ "*" \in def.items
<1>0. \A names : ~Admits(names).err /\ Admits(names).names = names
  BY Zenon DEF Admits
<1>1. Refused.err
  BY Zenon DEF Refused
<1>2. CASE ~def.list /\ ~def.neg
  <2>1. getAllowed(def, str) = Admits(IF hit THEN {str} ELSE {})
    BY <1>2, Zenon DEF getAllowed
  <2>2. Denotes(def, all) = IF "*" \in def.items THEN all ELSE def.items
    BY <1>2, Zenon DEF Denotes
  <2>3. QED
    BY <1>0, <2>1, <2>2, Zenon
<1>3. CASE def.neg /\ (~def.list \/ def.parses)
  <2>1. getAllowed(def, str) = IF hit THEN Refused ELSE Admits({str})
    BY <1>3, Zenon DEF getAllowed
  <2>2. Denotes(def, all) = all \ (IF "*" \in def.items THEN all ELSE def.items)
    BY <1>3, Zenon DEF Denotes
  <2>3. QED
    BY <1>0, <1>1, <2>1, <2>2, Zenon
<1>4. CASE def.list /\ ~def.parses
  <2>1. getAllowed(def, str) = Refused
    BY <1>4, Zenon DEF getAllowed
  <2>2. Denotes(def, all) = {}
    BY <1>4, Zenon DEF Denotes
  <2>3. QED
    BY <1>1, <2>1, <2>2, Zenon
<1>5. CASE def.list /\ def.parses /\ ~def.neg
  <2>1. getAllowed(def, str) = Admits(def.items \cup (IF "*" \in def.items THEN {str} ELSE {}))
    BY <1>5, Zenon DEF getAllowed
  <2>2. Denotes(def, all) = IF "*" \in def.items THEN all ELSE def.items
    BY <1>5, Zenon DEF Denotes
  <2>3. QED
    BY <1>0, <2>1, <2>2, Zenon
<1>6. QED
  BY <1>2, <1>3, <1>4, <1>5, Zenon

\* A request passes a key of version 2 that stands for it, and no other.
LEMMA KeyIsMeant ==
  ASSUME NEW key, key.ns # None, NEW a, NEW all, a.isResource, Asks(a, all),
         \A def \in {key.ns, key.res} : {def.neg, def.list, def.parses} \subseteq BOOLEAN /\ "" \notin def.items,
         \A v \in key.verbs : v \in DOMAIN Lower /\ (Lower[v] = "*" <=> v = "*")
  PROVE  (/\ a.ns = "" => key.ns = Everything
          /\ ~getAllowed(key.ns, a.ns).err /\ ~getAllowed(key.res, a.res).err
          /\ a.ns \in getAllowed(key.ns, a.ns).names /\ a.res \in getAllowed(key.res, a.res).names
          /\ AnyVerb({Lower[v] : v \in key.verbs}, a.verb))
         <=> <<a.ns, a.res, a.verb>> \in
               (Denotes(key.ns, all.ns) \cup (IF key.ns = Everything THEN {""} ELSE {}))
                 \X Denotes(key.res, all.res)
                 \X (IF "*" \in key.verbs THEN all.verbs ELSE {Lower[v] : v \in key.verbs})
<1>1. a.ns \in all.ns \cup {""} /\ a.res \in all.res /\ a.verb \in all.verbs /\ "" \notin all.ns /\ a.res # ""
  BY Zenon DEF Asks
<1>2. (~getAllowed(key.res, a.res).err /\ a.res \in getAllowed(key.res, a.res).names)
        <=> a.res \in Denotes(key.res, all.res)
  BY <1>1, AllowedIsDenoted, Zenon
<1>3. (/\ a.ns = "" => key.ns = Everything
       /\ ~getAllowed(key.ns, a.ns).err /\ a.ns \in getAllowed(key.ns, a.ns).names)
        <=> a.ns \in Denotes(key.ns, all.ns) \cup (IF key.ns = Everything THEN {""} ELSE {})
  <2>1. CASE a.ns # ""
    <3>1. (~getAllowed(key.ns, a.ns).err /\ a.ns \in getAllowed(key.ns, a.ns).names)
            <=> a.ns \in Denotes(key.ns, all.ns)
      BY <1>1, <2>1, AllowedIsDenoted, Zenon
    <3>2. QED
      BY <2>1, <3>1, Zenon
  <2>2. CASE a.ns = ""
    <3>1. "" \notin Denotes(key.ns, all.ns)
      BY <1>1, Zenon DEF Denotes
    <3>2. getAllowed(key.ns, a.ns) = Admits({""})
      BY <2>2, Zenon DEF getAllowed
    <3>3. ~Admits({""}).err /\ Admits({""}).names = {""}
      BY Zenon DEF Admits
    <3>4. QED
      BY <2>2, <3>1, <3>2, <3>3, Zenon
  <2>3. QED
    BY <2>1, <2>2, Zenon
<1>4. AnyVerb({Lower[v] : v \in key.verbs}, a.verb)
        <=> a.verb \in (IF "*" \in key.verbs THEN all.verbs ELSE {Lower[v] : v \in key.verbs})
  <2>1. "*" \in {Lower[v] : v \in key.verbs} <=> "*" \in key.verbs
    BY Zenon
  <2>2. QED
    BY <1>1, <2>1, Zenon DEF AnyVerb
<1>5. QED
  BY <1>2, <1>3, <1>4, Zenon

\* Authorize allows what the policies mean.
LEMMA AuthorizeIsMeant ==
  ASSUME NEW policies, \A p \in policies : WellFormed(p), NEW user, NEW a, NEW all, Asks(a, all)
  PROVE  Authorize(policies, user, a) <=> Meant(policies, user, a, all)
<1>1. ASSUME NEW p \in policies, a.isResource, p.resourcePermissions # None
      PROVE  resourcePermissionAllowed(p.resourcePermissions, a)
               <=> <<a.ns, a.res, a.verb>> \in Grants(p.resourcePermissions, all)
  <2> DEFINE passes(key) ==
        /\ a.ns = "" => key.ns = Everything
        /\ ~getAllowed(key.ns, a.ns).err /\ ~getAllowed(key.res, a.res).err
        /\ a.ns \in getAllowed(key.ns, a.ns).names /\ a.res \in getAllowed(key.res, a.res).names
        /\ AnyVerb({Lower[v] : v \in key.verbs}, a.verb)
      granted(k) == (Denotes(k.ns, all.ns) \cup (IF k.ns = Everything THEN {""} ELSE {}))
                      \X Denotes(k.res, all.res)
                      \X (IF "*" \in k.verbs THEN all.verbs ELSE {Lower[v] : v \in k.verbs})
  <2>1. \A k \in p.resourcePermissions :
          k.ns # None => (passes(k) <=> <<a.ns, a.res, a.verb>> \in granted(k))
    BY <1>1, KeyIsMeant, Zenon DEF WellFormed
  <2>2. resourcePermissionAllowed(p.resourcePermissions, a)
          <=> \E k \in p.resourcePermissions : k.ns # None /\ passes(k)
    BY Zenon DEF resourcePermissionAllowed
  <2>3. <<a.ns, a.res, a.verb>> \in Grants(p.resourcePermissions, all)
          <=> \E k \in p.resourcePermissions : k.ns # None /\ <<a.ns, a.res, a.verb>> \in granted(k)
    BY Zenon DEF Grants
  <2> HIDE DEF passes, granted
  <2>4. QED
    BY <2>1, <2>2, <2>3, Zenon
<1>2. \A p \in policies :
        Allows(p, user, a) <=> IF a.isResource /\ p.resourcePermissions # None
                               THEN <<a.ns, a.res, a.verb>> \in Grants(p.resourcePermissions, all)
                               ELSE Allows(p, user, a)
  BY <1>1, Zenon DEF Allows
<1>3. QED
  BY <1>2, Zenon DEF Authorize, Meant

-----------------------------------------------------------------------------
(* The invariant *)

Reviewing == {"begin", "info", "groups", "answer"}
Copying == {"namespace", "create", "list", "bind"}
Granted == {"groups", "answer", "answered", "sync"} \cup Copying

IsReview(x) == x = [pc |-> x.pc, tok |-> x.tok, roles |-> x.roles, had |-> x.had, excused |-> x.excused]
IsCopy(x) == x = [pc |-> x.pc, tok |-> x.tok, roles |-> x.roles]
IsBind(x) == x = [pc |-> x.pc, tok |-> x.tok, roles |-> x.roles, drop |-> x.drop, add |-> x.add]
IsAccess(x) == x = [pc |-> x.pc, lists |-> x.lists]

\* What a request in progress has in its variables.
FormOK(x) ==
  /\ x.pc \in Reviewing => IsReview(x)
  /\ x.pc \in {"sync", "namespace", "create", "list"} => IsCopy(x)
  /\ x.pc = "bind" => IsBind(x) /\ x.add \subseteq x.roles /\ x.drop \cap x.roles = {}
  /\ x.pc = "authorize" => IsAccess(x)
  /\ x.pc \in Reviewing \cup Granted => x.tok \in Tokens
  /\ x.pc \in Granted => x.roles \subseteq Roles

\* A token review that is not excused has the shared client to itself, and its token
\* is valid; the roles it has read are among those the token had meanwhile.
ReviewOK(c) ==
  /\ Asking(c) /\ ~h[c].excused =>
       /\ h[c].tok \in valid
       /\ ~At(c, "begin") => client = h[c].tok
       /\ \A d \in Handlers \ {c} : ~Asking(d)
  /\ Asking(c) /\ h[c].tok \in valid => roles[h[c].tok] \in h[c].had
  /\ h[c].pc \in {"groups", "answer", "answered"} => h[c].roles \in h[c].had
  /\ At(c, "answered") => Groups[User(h[c].tok)] \cup {Project(h[c].tok)} \subseteq h[c].groups
  /\ At(c, "denied") => h[c].excused

\* Who copies holds the mutex.  What was copied for the same user and project is
\* forgotten, and while the namespace stays the bindings are, but for what is still
\* to be dropped and added, the roles.
CopyOK(c) ==
  h[c].pc \in Copying =>
    LET t == h[c].tok IN
    /\ mu = c
    /\ \A x \in Alike(t) \ {t} : synced[x] = None
    /\ synced[t] # None =>
         /\ synced[t].ns = Namespace(c) /\ synced[t].roles = h[c].roles /\ ~synced[t].done
         /\ At(c, "bind") => Mine(c) = (h[c].roles \cup h[c].drop) \ h[c].add

Lists == DOMAIN Decisions

\* An access review has seen every list in force since it began.
AccessOK(c) ==
  /\ At(c, "authorize") => pl \in h[c].lists
  /\ At(c, "decided") => \E v \in h[c].lists : v \in Lists /\ h[c].allowed = Decisions[v]

\* A namespace that is not shared bears the name of the project.
SyncedOK(t) ==
  synced[t] # None =>
    /\ synced[t] = [ns |-> synced[t].ns, roles |-> synced[t].roles, done |-> synced[t].done]
    /\ synced[t].ns \in {Project(t), "shared"}

KeystoneOK == valid \subseteq Tokens /\ roles \in [Tokens -> SUBSET Roles]

\* The maps, what is known of them and the list in force are versions.
MapsOK ==
  /\ maps = [m \in Maps |-> maps[m]] /\ seen = [m \in Maps |-> seen[m]]
  /\ \A m \in Maps : maps[m] \in Versions(m) /\ seen[m] \in Versions(m)
  /\ queue \subseteq Maps
  /\ work # None => work.key \in Maps /\ work.got \in Versions(work.key)
  /\ pl \in Lists

IInv ==
  /\ h = [c \in Handlers |-> h[c]] /\ synced = [t \in Tokens |-> synced[t]]
  /\ up # "serving" => mu = None /\ \A c \in Handlers : h[c] = Idle
  /\ \A c \in Handlers : FormOK(h[c]) /\ ReviewOK(c) /\ CopyOK(c) /\ AccessOK(c)
  /\ \A t \in Tokens : SyncedOK(t)
  /\ KeystoneOK /\ MapsOK /\ BindingsAsCopied

-----------------------------------------------------------------------------
(* What a step of one request leaves alone *)

\* Only the request c goes on.
Only(c) == h' = [d \in Handlers |-> h'[d]] /\ \A d \in Handlers \ {c} : h'[d] = h[d]

\* The other requests fit what c does: it sets the client's token only while it asks,
\* and the bindings only while nobody else copies.
LEMMA OthersFit ==
  ASSUME IInv, NEW c \in Handlers, Only(c), UNCHANGED <<pl, valid, roles>>,
         Asking(c)' => Asking(c), client' # client => Asking(c),
         UNCHANGED <<mu, sc, synced, bindings>> \/ mu \in {None, c},
         NEW d \in Handlers \ {c}
  PROVE  FormOK(h'[d]) /\ ReviewOK(d)' /\ CopyOK(d)' /\ AccessOK(d)'
<1>1. h'[d] = h[d] /\ FormOK(h[d]) /\ ReviewOK(d) /\ CopyOK(d) /\ AccessOK(d)
  BY Zenon DEF IInv, Only
<1>2. ReviewOK(d)'
  <2>1. (Asking(d)' <=> Asking(d)) /\ \A e \in Handlers : Asking(e)' => Asking(e)
    BY <1>1, Zenon DEF Asking, Only
  <2>2. Asking(d) /\ ~h[d].excused => client' = client
    BY <1>1, Zenon DEF ReviewOK
  <2>3. QED
    BY <1>1, <2>1, <2>2, Zenon DEF ReviewOK, At
<1>3. CopyOK(d)'
  <2>1. CASE UNCHANGED <<mu, sc, synced, bindings>>
    BY <1>1, <2>1, Zenon DEF CopyOK, At, Mine, Namespace
  <2>2. CASE mu \in {None, c}
    BY <1>1, <2>2, ConstantsAssumption, Zenon DEF CopyOK
  <2>3. QED
    BY <2>1, <2>2, Zenon
<1>4. AccessOK(d)'
  BY <1>1, Zenon DEF AccessOK, At
<1>5. QED
  BY <1>1, <1>2, <1>3, <1>4, Zenon

\* A request in progress goes on without touching the policies, the maps and Keystone.
LEMMA StepKept ==
  ASSUME IInv, NEW c \in Handlers, up = "serving", Only(c), UNCHANGED <<web, keystone>>,
         Asking(c)' => Asking(c), client' # client => Asking(c),
         UNCHANGED <<mu, synced, bindings>> \/ mu \in {None, c},
         FormOK(h'[c]), ReviewOK(c)', CopyOK(c)', AccessOK(c)',
         synced' = [t \in Tokens |-> synced'[t]], \A t \in Tokens : SyncedOK(t)', BindingsAsCopied'
  PROVE  IInv'
<1>1. UNCHANGED <<maps, seen, queue, work, up, pl, sc, valid, roles>>
  BY Zenon DEF web, keystone
<1>2. \A d \in Handlers : FormOK(h'[d]) /\ ReviewOK(d)' /\ CopyOK(d)' /\ AccessOK(d)'
  BY <1>1, OthersFit, Zenon
<1>3. KeystoneOK' /\ MapsOK'
  BY <1>1, Zenon DEF IInv, KeystoneOK, MapsOK
<1>4. QED
  BY <1>1, <1>2, <1>3, Zenon DEF IInv, Only

\* A request in progress that does not copy goes on.
LEMMA QuietKept ==
  ASSUME IInv, NEW c \in Handlers, up = "serving", Only(c), UNCHANGED <<web, keystone, mu, bindings, synced>>,
         Asking(c)' => Asking(c), client' # client => Asking(c),
         FormOK(h'[c]), ReviewOK(c)', AccessOK(c)', h'[c].pc \notin Copying
  PROVE  IInv'
<1>1. CopyOK(c)'
  BY Zenon DEF CopyOK
<1>2. synced' = [t \in Tokens |-> synced'[t]] /\ (\A t \in Tokens : SyncedOK(t)') /\ BindingsAsCopied'
  BY Zenon DEF IInv, SyncedOK, BindingsAsCopied
<1>3. QED
  BY <1>1, <1>2, StepKept, Zenon

\* An idle request is at "idle".
LEMMA IdlesAt == Idle.pc = "idle"
  BY SMT DEF Idle

\* A request in progress is over.
LEMMA IdleKept ==
  ASSUME IInv, NEW c \in Handlers, h' = [h EXCEPT ![c] = Idle]
  PROVE  /\ Only(c) /\ FormOK(h'[c]) /\ ReviewOK(c)' /\ CopyOK(c)' /\ AccessOK(c)' /\ ~Asking(c)'
         /\ h'[c].pc \notin Copying
<1>1. h'[c] = Idle /\ Only(c)
  BY Zenon DEF IInv, Only
<1>2. h'[c].pc = "idle"
  BY <1>1, IdlesAt, Zenon
<1>3. QED
  BY <1>1, <1>2, Zenon DEF FormOK, ReviewOK, CopyOK, AccessOK, At, Asking, Reviewing, Copying, Granted

\* A review, or a copy, goes on to another request.
LEMMA GotoMoves ==
  ASSUME IInv, NEW c \in Handlers, NEW p, Goto(c, p)
  PROVE  /\ Only(c)
         /\ h[c].pc \in Reviewing =>
              h'[c] = [pc |-> p, tok |-> h[c].tok, roles |-> h[c].roles, had |-> h[c].had, excused |-> h[c].excused]
         /\ h[c].pc \in {"sync", "namespace", "create", "list"} =>
              h'[c] = [pc |-> p, tok |-> h[c].tok, roles |-> h[c].roles]
<1>1. h'[c] = [h[c] EXCEPT !.pc = p] /\ Only(c)
  BY Zenon DEF IInv, Goto, Only
<1>2. FormOK(h[c])
  BY Zenon DEF IInv
<1>3. ASSUME IsReview(h[c]) 
      PROVE  [h[c] EXCEPT !.pc = p] =
               [pc |-> p, tok |-> h[c].tok, roles |-> h[c].roles, had |-> h[c].had, excused |-> h[c].excused]
  BY <1>3, SMT DEF IsReview
<1>4. ASSUME IsCopy(h[c]) PROVE [h[c] EXCEPT !.pc = p] = [pc |-> p, tok |-> h[c].tok, roles |-> h[c].roles]
  BY <1>4, SMT DEF IsCopy
<1>5. QED
  BY <1>1, <1>2, <1>3, <1>4, Zenon DEF FormOK

\* Who is not idle is served.
LEMMA Served == ASSUME IInv, NEW c \in Handlers, h[c].pc # "idle" PROVE up = "serving"
  BY IdlesAt, Zenon DEF IInv

-----------------------------------------------------------------------------
(* Reviews *)

\* The variables of the requests, by their forms.
LEMMA Fields ==
  /\ \A p, t, r, y, e : LET x == [pc |-> p, tok |-> t, roles |-> r, had |-> y, excused |-> e] IN
       x.pc = p /\ x.tok = t /\ x.roles = r /\ x.had = y /\ x.excused = e
  /\ \A p, t, r : LET x == [pc |-> p, tok |-> t, roles |-> r] IN x.pc = p /\ x.tok = t /\ x.roles = r
  /\ \A p, t, r, d, a : LET x == [pc |-> p, tok |-> t, roles |-> r, drop |-> d, add |-> a] IN
       x.pc = p /\ x.tok = t /\ x.roles = r /\ x.drop = d /\ x.add = a
  /\ \A p, s : LET x == [pc |-> p, lists |-> s] IN x.pc = p /\ x.lists = s
  /\ \A p, t, y, e : LET x == [pc |-> p, tok |-> t, had |-> y, excused |-> e] IN
       x.pc = p /\ x.excused = e /\ [x EXCEPT !.excused = TRUE].pc = p /\ [x EXCEPT !.excused = TRUE].excused
  /\ \A p, t, r, y, n, g : LET x == [pc |-> p, tok |-> t, roles |-> r, had |-> y, name |-> n, groups |-> g] IN
       x.pc = p /\ x.tok = t /\ x.roles = r /\ x.had = y /\ x.groups = g
  /\ \A p, s, a : LET x == [pc |-> p, lists |-> s, allowed |-> a] IN
       x.pc = p /\ x.lists = s /\ x.allowed = a
  BY SMT

\* A review that has read roles.
LEMMA RolesRead ==
  ASSUME NEW p, NEW t, NEW q, NEW r, NEW g, NEW e, NEW w,
         w = [pc |-> p, tok |-> t, roles |-> q, had |-> g, excused |-> e]
  PROVE  [w EXCEPT !.roles = r] = [pc |-> p, tok |-> t, roles |-> r, had |-> g, excused |-> e]
  BY SMT

\* A review, given by its form, that has read roles.
LEMMA ReviewReads ==
  ASSUME NEW x, IsReview(x), NEW p, NEW r, NEW y, y = [x EXCEPT !.pc = p, !.roles = r]
  PROVE  y = [pc |-> p, tok |-> x.tok, roles |-> r, had |-> x.had, excused |-> x.excused]
<1> DEFINE w == [x EXCEPT !.pc = p]
<1>1. w = [pc |-> p, tok |-> x.tok, roles |-> x.roles, had |-> x.had, excused |-> x.excused]
  BY SMT DEF IsReview
<1>2. y = [w EXCEPT !.roles = r]
  BY Zenon
<1> HIDE DEF w
<1>3. QED
  BY <1>1, <1>2, RolesRead, Zenon

\* A request gets new variables.
LEMMA SetMoves == ASSUME IInv, NEW c \in Handlers, NEW x, h' = [h EXCEPT ![c] = x] PROVE h'[c] = x /\ Only(c)
  BY Zenon DEF IInv, Only

\* A review in progress keeps its token.
LEMMA ReviewGoesOn ==
  ASSUME IInv, NEW c \in Handlers, NEW p \in Reviewing, NEW r, Only(c), h[c].pc \in Reviewing,
         p \in Granted => r \subseteq Roles,
         h'[c] = [pc |-> p, tok |-> h[c].tok, roles |-> r, had |-> h[c].had, excused |-> h[c].excused]
  PROVE  /\ h'[c].pc = p /\ h'[c].tok = h[c].tok /\ h'[c].roles = r /\ h'[c].had = h[c].had
         /\ h'[c].excused = h[c].excused
         /\ FormOK(h'[c]) /\ AccessOK(c)' /\ h'[c].pc \notin Copying
<1>1. /\ h'[c].pc = p /\ h'[c].tok = h[c].tok /\ h'[c].roles = r /\ h'[c].had = h[c].had
      /\ h'[c].excused = h[c].excused
  BY SMT
<1>2. IsReview(h'[c])
  BY <1>1, Zenon DEF IsReview
<1>3. h[c].tok \in Tokens
  BY Zenon DEF IInv, FormOK
<1>4. h'[c].pc \notin Copying \cup {"sync", "authorize", "decided"}
  BY <1>1, SMT DEF Reviewing, Copying
<1>5. FormOK(h'[c])
  BY <1>1, <1>2, <1>3, <1>4, Zenon DEF FormOK, Copying
<1>6. AccessOK(c)'
  BY <1>4, Zenon DEF AccessOK, At
<1>7. QED
  BY <1>1, <1>4, <1>5, <1>6, Zenon

\* A review that is denied is excused.
LEMMA DeniedKept ==
  ASSUME IInv, NEW c \in Handlers, up = "serving", NEW x, h' = [h EXCEPT ![c] = x], x.pc = "denied", x.excused,
         UNCHANGED <<web, client, keystone, mu, bindings, synced>>
  PROVE  IInv'
<1>1. h'[c] = x /\ Only(c)
  BY SetMoves, Zenon
<1>2. h'[c].pc = "denied" /\ h'[c].excused
  BY <1>1, Zenon
<1>3. FormOK(h'[c]) /\ ReviewOK(c)' /\ AccessOK(c)' /\ ~Asking(c)' /\ h'[c].pc \notin Copying
  BY <1>2, Zenon DEF FormOK, ReviewOK, AccessOK, Asking, At, Reviewing, Copying, Granted
<1>4. QED
  BY <1>1, <1>3, QuietKept, Zenon

\* A request that is over leaves everything as it was.
LEMMA OverKept ==
  ASSUME IInv, NEW c \in Handlers, up = "serving", h' = [h EXCEPT ![c] = Idle],
         UNCHANGED <<web, client, keystone, mu, bindings, synced>>
  PROVE  IInv'
  BY IdleKept, QuietKept, Zenon

\* Token reviews: SetToken, GetTokenInfo, GetGroups, authenticateToken and what follows
\* the answer.
LEMMA ReviewKept ==
  ASSUME IInv, NEW c \in Handlers,
         SetToken(c) \/ GetTokenInfo(c) \/ GetGroups(c) \/ authenticateToken(c) \/ Handler(c) \/ Finish(c)
  PROVE  IInv'
<1>0. FormOK(h[c]) /\ ReviewOK(c) /\ KeystoneOK /\ (h[c].pc # "idle" => up = "serving")
  BY Served, Zenon DEF IInv
<1>1. CASE SetToken(c)
  <2>1. h[c].pc = "begin" /\ h[c].pc \in Reviewing /\ "info" \in Reviewing /\ "info" \notin Granted
    BY <1>1, Zenon DEF SetToken, At, Reviewing, Granted, Copying
  <2>2. Only(c) /\ h'[c] = [pc |-> "info", tok |-> h[c].tok, roles |-> h[c].roles, had |-> h[c].had,
                            excused |-> h[c].excused]
    BY <1>1, <2>1, GotoMoves, Zenon DEF SetToken
  <2>3. /\ h'[c].pc = "info" /\ h'[c].tok = h[c].tok /\ h'[c].had = h[c].had /\ h'[c].excused = h[c].excused
        /\ FormOK(h'[c]) /\ AccessOK(c)' /\ h'[c].pc \notin Copying
    BY <2>1, <2>2, ReviewGoesOn, Zenon
  <2>4. Asking(c) /\ Asking(c)' /\ \A d \in Handlers \ {c} : Asking(d)' => Asking(d)
    BY <2>1, <2>2, <2>3, Zenon DEF Asking, Only
  <2>5. client' = h[c].tok /\ UNCHANGED <<valid, roles>>
    BY <1>1, Zenon DEF SetToken, keystone
  <2>6. ReviewOK(c)'
    BY <1>0, <2>3, <2>4, <2>5, Zenon DEF ReviewOK, At
  <2>7. QED
    BY <1>0, <1>1, <2>1, <2>2, <2>3, <2>4, <2>6, QuietKept, Zenon DEF SetToken, kube
<1>2. CASE GetTokenInfo(c)
  <2> DEFINE t == h[c].tok
  <2>1. /\ h[c].pc = "info" /\ h[c].pc \in Reviewing /\ "groups" \in Reviewing /\ Asking(c) /\ up = "serving"
        /\ UNCHANGED <<web, mu, valid, roles, keystone, bindings, synced>>
    BY <1>0, <1>2, Zenon DEF GetTokenInfo, At, Asking, Reviewing, kube, keystone
  <2>2. ASSUME t \in valid, h' = [h EXCEPT ![c].pc = "groups", ![c].roles = roles[t]], client' = t
        PROVE  IInv'
    <3>1. h'[c] = [h[c] EXCEPT !.pc = "groups", !.roles = roles[t]] /\ Only(c)
      BY <2>2, Zenon DEF IInv, Only
    <3>2. IsReview(h[c]) /\ t \in Tokens
      BY <1>0, <2>1, Zenon DEF FormOK
    <3>3. h'[c] = [pc |-> "groups", tok |-> h[c].tok, roles |-> roles[t], had |-> h[c].had, excused |-> h[c].excused]
      <4> DEFINE x == h[c]
                 y == h'[c]
                 r == roles[t]
      <4>1. IsReview(x) /\ y = [x EXCEPT !.pc = "groups", !.roles = r]
        BY <3>1, <3>2, Zenon
      <4> HIDE DEF x, y, r
      <4>2. y = [pc |-> "groups", tok |-> x.tok, roles |-> r, had |-> x.had, excused |-> x.excused]
        BY <4>1, ReviewReads, Zenon
      <4>3. QED
        BY <4>2, Zenon DEF x, y, r
    <3>4. roles[t] \subseteq Roles
      BY <1>0, <3>2, SMT DEF KeystoneOK
    <3>5. /\ h'[c].pc = "groups" /\ h'[c].tok = t /\ h'[c].roles = roles[t] /\ h'[c].had = h[c].had
          /\ h'[c].excused = h[c].excused /\ FormOK(h'[c]) /\ AccessOK(c)' /\ h'[c].pc \notin Copying
      BY <2>1, <3>1, <3>3, <3>4, ReviewGoesOn, Zenon
    <3>6. \A d \in Handlers \ {c} : Asking(d)' => Asking(d)
      BY <3>1, Zenon DEF Asking, Only
    <3>7. ReviewOK(c)'
      <4>1. ~h[c].excused => \A d \in Handlers \ {c} : ~Asking(d)'
        BY <1>0, <2>1, <3>6, Zenon DEF ReviewOK
      <4>2. roles[t] \in h[c].had
        BY <1>0, <2>1, <2>2, Zenon DEF ReviewOK
      <4>3. ~At(c, "answered")' /\ ~At(c, "denied")' /\ UNCHANGED <<valid, roles>>
        BY <2>1, <3>5, Zenon DEF At
      <4>4. /\ h'[c].tok \in valid' /\ roles'[h'[c].tok] \in h'[c].had /\ client' = h'[c].tok
            /\ h'[c].roles \in h'[c].had
        BY <2>2, <3>5, <4>2, <4>3, SMT
      <4>5. ~h'[c].excused => \A d \in Handlers \ {c} : ~Asking(d)'
        BY <3>5, <4>1, Zenon
      <4>6. QED
        BY <4>3, <4>4, <4>5, Zenon DEF ReviewOK
    <3>8. QED
      BY <2>1, <3>1, <3>5, <3>7, QuietKept, Zenon
  <2>3. ~h[c].excused => {t, client} \subseteq valid
    BY <1>0, <2>1, Zenon DEF ReviewOK, At
  <2>4. Denied(c).pc = "denied" /\ Denied(c).excused = h[c].excused
        /\ [Denied(c) EXCEPT !.excused = TRUE].pc = "denied" /\ [Denied(c) EXCEPT !.excused = TRUE].excused
    BY Fields, Zenon DEF Denied
  <2>5. \/ t \in valid /\ h' = [h EXCEPT ![c].pc = "groups", ![c].roles = roles[t]] /\ client' = t
        \/ h' = [h EXCEPT ![c] = Idle] /\ UNCHANGED client
        \/ ~({t, client} \subseteq valid) /\ h' = [h EXCEPT ![c] = Denied(c)] /\ UNCHANGED client
        \/ h' = [h EXCEPT ![c] = [Denied(c) EXCEPT !.excused = TRUE]] /\ UNCHANGED client
    BY <1>2, Zenon DEF GetTokenInfo
  <2> HIDE DEF t
  <2>6. CASE h' = [h EXCEPT ![c] = Idle] /\ UNCHANGED client
    BY <2>1, <2>6, OverKept, Zenon
  <2>7. CASE ~({t, client} \subseteq valid) /\ h' = [h EXCEPT ![c] = Denied(c)] /\ UNCHANGED client
    BY <2>1, <2>3, <2>4, <2>7, DeniedKept, Zenon
  <2>8. CASE h' = [h EXCEPT ![c] = [Denied(c) EXCEPT !.excused = TRUE]] /\ UNCHANGED client
    BY <2>1, <2>4, <2>8, DeniedKept, Zenon
  <2>9. QED
    BY <2>2, <2>5, <2>6, <2>7, <2>8, Zenon
<1>3. CASE GetGroups(c)
  <2>1. /\ h[c].pc = "groups" /\ h[c].pc \in Reviewing /\ "answer" \in Reviewing /\ Asking(c) /\ up = "serving"
        /\ UNCHANGED <<web, client, mu, keystone, bindings, synced>>
    BY <1>0, <1>3, Zenon DEF GetGroups, At, Asking, Reviewing, kube
  <2>2. ASSUME Goto(c, "answer") PROVE IInv'
    <3>1. Only(c) /\ h'[c] = [pc |-> "answer", tok |-> h[c].tok, roles |-> h[c].roles, had |-> h[c].had,
                              excused |-> h[c].excused]
      BY <2>1, <2>2, GotoMoves, Zenon
    <3>2. h[c].roles \subseteq Roles
      BY <1>0, <2>1, Zenon DEF FormOK, Granted
    <3>3. /\ h'[c].pc = "answer" /\ h'[c].roles = h[c].roles /\ h'[c].had = h[c].had
          /\ FormOK(h'[c]) /\ AccessOK(c)' /\ h'[c].pc \notin Copying
      BY <2>1, <3>1, <3>2, ReviewGoesOn, Zenon
    <3>4. ReviewOK(c)'
      BY <1>0, <2>1, <3>3, Zenon DEF ReviewOK, At, Asking
    <3>5. QED
      BY <2>1, <3>1, <3>3, <3>4, QuietKept, Zenon
  <2>3. ~h[c].excused => client \in valid /\ User(client) = User(h[c].tok)
    BY <1>0, <2>1, Zenon DEF ReviewOK, At
  <2>4. Denied(c).pc = "denied" /\ Denied(c).excused = h[c].excused
        /\ [Denied(c) EXCEPT !.excused = TRUE].pc = "denied" /\ [Denied(c) EXCEPT !.excused = TRUE].excused
    BY Fields, Zenon DEF Denied
  <2>5. QED
    BY <1>3, <2>1, <2>2, <2>3, <2>4, DeniedKept, Zenon DEF GetGroups
<1>4. CASE authenticateToken(c)
  <2> DEFINE info == syncRoles(AuthenticateToken(h[c].tok), h[c].roles)
             x == [pc |-> "answered", tok |-> h[c].tok, roles |-> h[c].roles, had |-> h[c].had,
                   name |-> info.name, groups |-> info.groups]
  <2>1. /\ h[c].pc = "answer" /\ up = "serving" /\ h' = [h EXCEPT ![c] = x]
        /\ UNCHANGED <<web, client, mu, keystone, bindings, synced>>
    BY <1>0, <1>4, Zenon DEF authenticateToken, At, kube
  <2>2. Groups[User(h[c].tok)] \cup {Project(h[c].tok)} \subseteq info.groups
    <3>1. \A i, has : i.groups \subseteq syncRoles(i, has).groups
      BY Zenon DEF syncRoles
    <3>2. AuthenticateToken(h[c].tok).groups = Groups[User(h[c].tok)] \cup {Project(h[c].tok)}
      BY Zenon DEF AuthenticateToken
    <3>3. QED
      BY <3>1, <3>2, Zenon
  <2>3. x.pc = "answered" /\ x.tok = h[c].tok /\ x.roles = h[c].roles /\ x.had = h[c].had /\ x.groups = info.groups
    BY Fields, Zenon
  <2> HIDE DEF info, x
  <2>4. h'[c] = x /\ Only(c)
    BY <2>1, SetMoves, Zenon
  <2>5. h[c].tok \in Tokens /\ h[c].roles \subseteq Roles /\ h[c].roles \in h[c].had
    BY <1>0, <2>1, Zenon DEF FormOK, ReviewOK, Reviewing, Granted
  <2>6. FormOK(h'[c]) /\ ReviewOK(c)' /\ AccessOK(c)' /\ ~Asking(c)' /\ h'[c].pc \notin Copying
    BY <2>2, <2>3, <2>4, <2>5, Zenon DEF FormOK, ReviewOK, AccessOK, Asking, At, Reviewing, Copying
  <2>7. QED
    BY <2>1, <2>4, <2>6, QuietKept, Zenon
<1>5. CASE Handler(c)
  <2> DEFINE x == [pc |-> "sync", tok |-> h[c].tok, roles |-> h[c].roles]
  <2>1. /\ h[c].pc = "answered" /\ up = "serving" /\ UNCHANGED <<web, client, mu, keystone, bindings, synced>>
        /\ h' = [h EXCEPT ![c] = x] \/ h' = [h EXCEPT ![c] = Idle]
    BY <1>0, <1>5, Zenon DEF Handler, At, kube
  <2>2. ASSUME h' = [h EXCEPT ![c] = x] PROVE IInv'
    <3>1. h'[c] = x /\ Only(c)
      BY <2>2, SetMoves, Zenon
    <3>2. x.pc = "sync" /\ x.tok = h[c].tok /\ x.roles = h[c].roles
      BY Fields, Zenon
    <3>3. IsCopy(x)
      BY <3>2, Zenon DEF IsCopy
    <3> HIDE DEF x
    <3>4. h[c].tok \in Tokens /\ h[c].roles \subseteq Roles
      BY <1>0, <2>1, Zenon DEF FormOK, Granted
    <3>5. FormOK(h'[c]) /\ ReviewOK(c)' /\ AccessOK(c)' /\ ~Asking(c)' /\ h'[c].pc \notin Copying
      BY <3>1, <3>2, <3>3, <3>4, Zenon DEF FormOK, ReviewOK, AccessOK, Asking, At, Reviewing, Copying
    <3>6. QED
      BY <2>1, <3>1, <3>5, QuietKept, Zenon
  <2>3. QED
    BY <2>1, <2>2, OverKept, Zenon
<1>6. CASE Finish(c)
  BY <1>0, <1>6, OverKept, Zenon DEF Finish, kube
<1>7. QED
  BY <1>1, <1>2, <1>3, <1>4, <1>5, <1>6, Zenon

\* Access reviews: authorizeToken and Decide.
LEMMA AccessKept ==
  ASSUME IInv, NEW c \in Handlers, authorizeToken(c) \/ Decide(c)
  PROVE  IInv'
<1>0. FormOK(h[c]) /\ AccessOK(c) /\ pl \in Lists /\ up = "serving"
      /\ UNCHANGED <<web, client, mu, keystone, bindings, synced, pl>>
  BY Served, Zenon DEF IInv, MapsOK, authorizeToken, Decide, At, kube, web
<1>1. ASSUME NEW x, h' = [h EXCEPT ![c] = x], x.pc = "authorize" \/ x.pc = "decided",
             x.pc = "authorize" => IsAccess(x) /\ pl \in x.lists,
             x.pc = "decided" => pl \in x.lists /\ x.allowed = Decisions[pl]
      PROVE  IInv'
  <2>1. h'[c] = x /\ Only(c)
    BY <1>1, SetMoves, Zenon
  <2>2. FormOK(h'[c]) /\ ReviewOK(c)' /\ ~Asking(c)' /\ h'[c].pc \notin Copying
    BY <1>1, <2>1, Zenon DEF FormOK, ReviewOK, Asking, At, Reviewing, Copying, Granted
  <2>3. AccessOK(c)'
    BY <1>0, <1>1, <2>1, Zenon DEF AccessOK, At
  <2>4. QED
    BY <1>0, <2>1, <2>2, <2>3, QuietKept, Zenon
<1>2. \A s, a : Decided(s, a).pc = "decided" /\ Decided(s, a).lists = s /\ Decided(s, a).allowed = a
  BY Fields, Zenon DEF Decided
<1>3. CASE authorizeToken(c)
  <2>1. List(pl) = {} => Decisions[pl] = {}
    BY <1>0, Zenon DEF Lists, Decisions, Authorize
  <2> DEFINE x == [pc |-> "authorize", lists |-> {pl}]
  <2>2. x.pc = "authorize" /\ x.lists = {pl}
    BY Fields, Zenon
  <2>3. IsAccess(x)
    BY <2>2, Zenon DEF IsAccess
  <2>4. \/ List(pl) = {} /\ h' = [h EXCEPT ![c] = Decided({pl}, {})]
        \/ h' = [h EXCEPT ![c] = x]
    BY <1>3, Zenon DEF authorizeToken
  <2> HIDE DEF x
  <2>5. CASE List(pl) = {} /\ h' = [h EXCEPT ![c] = Decided({pl}, {})]
    <3> DEFINE y == Decided({pl}, {})
    <3>1. y.pc = "decided" /\ y.lists = {pl} /\ y.allowed = Decisions[pl]
      BY <1>2, <2>1, <2>5, Zenon
    <3>2. h' = [h EXCEPT ![c] = y]
      BY <2>5, Zenon
    <3> HIDE DEF y
    <3>3. QED
      BY <1>1, <3>1, <3>2, Zenon
  <2>6. CASE h' = [h EXCEPT ![c] = x]
    BY <1>1, <2>2, <2>3, <2>6, Zenon
  <2>7. QED
    BY <2>4, <2>5, <2>6, Zenon
<1>4. CASE Decide(c)
  <2>1. h' = [h EXCEPT ![c] = Decided(h[c].lists, Decisions[pl])] /\ pl \in h[c].lists
    BY <1>0, <1>4, Zenon DEF Decide, AccessOK, At
  <2> DEFINE y == Decided(h[c].lists, Decisions[pl])
  <2>2. y.pc = "decided" /\ pl \in y.lists /\ y.allowed = Decisions[pl]
    BY <1>2, <2>1, Zenon
  <2>3. h' = [h EXCEPT ![c] = y]
    BY <2>1, Zenon
  <2> HIDE DEF y
  <2>4. QED
    BY <1>1, <2>2, <2>3, Zenon
<1>5. QED
  BY <1>3, <1>4, Zenon

-----------------------------------------------------------------------------
(* Copying *)

\* The namespace of a request is the project's, or the shared one.
LEMMA NamespaceNamed == ASSUME NEW c PROVE Namespace(c) \in {Project(h[c].tok), "shared"}
  BY Zenon DEF Namespace, formatNamespaceName

\* What was copied for other tokens is of another user or another namespace.
LEMMA OthersApart ==
  ASSUME IInv, NEW c \in Handlers, h[c].pc \in Copying,
         NEW x \in Tokens, synced[x] # None, synced[x].done, synced[x].ns # "shared"
  PROVE  ~(synced[x].ns = Namespace(c) /\ User(x) = User(h[c].tok))
<1>1. CopyOK(c) /\ SyncedOK(x) /\ h[c].tok \in Tokens
  BY Zenon DEF IInv, FormOK, Granted
<1>2. x # h[c].tok /\ Owner[x] # Owner[h[c].tok]
  BY <1>1, Zenon DEF CopyOK, Alike
<1>3. ~(User(x) = User(h[c].tok) /\ Project(x) = Project(h[c].tok))
  BY <1>1, <1>2, StartAssumption, Zenon DEF User, Project
<1>4. QED
  BY <1>1, <1>3, NamespaceNamed, Zenon DEF SyncedOK

\* The bindings of one user in one namespace change.
LEMMA OneBinding ==
  ASSUME NEW n, NEW u, NEW r, NEW m, NEW v, ~(m = n /\ v = u),
         bindings' \in {bindings, bindings \ {<<n, u, r>>}, bindings \cup {<<n, u, r>>}}
  PROVE  {q \in Roles : <<m, v, q>> \in bindings'} = {q \in Roles : <<m, v, q>> \in bindings}
<1>1. \A q : <<m, v, q>> # <<n, u, r>>
  BY SMT
<1>2. \A b : b # <<n, u, r>> => (b \in bindings' <=> b \in bindings)
  BY Zenon
<1>3. \A q : <<m, v, q>> \in bindings' <=> <<m, v, q>> \in bindings
  BY <1>1, <1>2, SMT
<1>4. QED
  BY <1>3, Zenon

\* A request that copies changes only bindings that no finished copy speaks of.
LEMMA CopiedStays ==
  ASSUME IInv, NEW c \in Handlers, h[c].pc \in Copying, NEW r, UNCHANGED synced,
         bindings' \in {bindings, bindings \ {<<Namespace(c), User(h[c].tok), r>>},
                        bindings \cup {<<Namespace(c), User(h[c].tok), r>>}}
  PROVE  BindingsAsCopied'
<1>1. ASSUME NEW x \in Tokens, synced[x] # None, synced[x].done, synced[x].ns # "shared"
      PROVE  {q \in Roles : <<synced[x].ns, User(x), q>> \in bindings'} = synced[x].roles
  <2>1. ~(synced[x].ns = Namespace(c) /\ User(x) = User(h[c].tok))
    BY <1>1, OthersApart, Zenon
  <2>2. {q \in Roles : <<synced[x].ns, User(x), q>> \in bindings'}
          = {q \in Roles : <<synced[x].ns, User(x), q>> \in bindings}
    BY <2>1, OneBinding, Zenon
  <2>3. {q \in Roles : <<synced[x].ns, User(x), q>> \in bindings} = synced[x].roles
    BY <1>1, Zenon DEF IInv, BindingsAsCopied
  <2>4. QED
    BY <2>2, <2>3, Zenon
<1>2. QED
  BY <1>1, Zenon DEF BindingsAsCopied

\* The copying ends.
LEMMA UnlockKept ==
  ASSUME IInv, NEW c \in Handlers, h[c].pc \in Copying, up = "serving", Unlock(c), UNCHANGED <<web, client, keystone>>,
         synced' = [t \in Tokens |-> synced'[t]], \A t \in Tokens : SyncedOK(t)', BindingsAsCopied'
  PROVE  IInv'
<1>1. mu = c
  BY Zenon DEF IInv, CopyOK
<1>2. /\ Only(c) /\ FormOK(h'[c]) /\ ReviewOK(c)' /\ CopyOK(c)' /\ AccessOK(c)' /\ ~Asking(c)'
  BY IdleKept, Zenon DEF Unlock
<1>3. QED
  BY <1>1, <1>2, StepKept, Zenon

\* The copying goes on.
LEMMA CopyGoesOn ==
  ASSUME IInv, NEW c \in Handlers, h[c].pc \in Copying, up = "serving", Only(c),
         UNCHANGED <<web, client, keystone, mu, synced>>,
         FormOK(h'[c]), h'[c].pc \in Copying, h'[c].tok = h[c].tok, h'[c].roles = h[c].roles, BindingsAsCopied',
         synced[h[c].tok] # None /\ h'[c].pc = "bind" => Mine(c)' = (h'[c].roles \cup h'[c].drop) \ h'[c].add
  PROVE  IInv'
<1>1. CopyOK(c) /\ (\A t \in Tokens : SyncedOK(t)') /\ synced' = [t \in Tokens |-> synced'[t]]
  BY Zenon DEF IInv, SyncedOK
<1>2. Namespace(c)' = Namespace(c)
  BY Zenon DEF Namespace, web
<1>3. CopyOK(c)'
  BY <1>1, <1>2, Zenon DEF CopyOK, At
<1>4. ReviewOK(c)' /\ AccessOK(c)' /\ ~Asking(c)'
  BY Zenon DEF ReviewOK, AccessOK, Asking, At, Copying
<1>5. mu = c
  BY <1>1, Zenon DEF CopyOK
<1>6. QED
  BY <1>1, <1>3, <1>4, <1>5, StepKept, Zenon

\* The variables of a copy that goes on to another request.
LEMMA CopyMoves ==
  ASSUME IInv, NEW c \in Handlers, h[c].pc \in {"sync", "namespace", "create"}, NEW p \in {"namespace", "create", "list"},
         Goto(c, p)
  PROVE  Only(c) /\ FormOK(h'[c]) /\ h'[c].pc = p /\ p \in Copying /\ h'[c].tok = h[c].tok /\ h'[c].roles = h[c].roles
<1>1. Only(c) /\ h'[c] = [pc |-> p, tok |-> h[c].tok, roles |-> h[c].roles]
  BY GotoMoves, Zenon
<1>2. h'[c].pc = p /\ h'[c].tok = h[c].tok /\ h'[c].roles = h[c].roles
  BY <1>1, SMT
<1>3. IsCopy(h'[c])
  BY <1>1, <1>2, Zenon DEF IsCopy
<1>4. h[c].tok \in Tokens /\ h[c].roles \subseteq Roles
  BY Zenon DEF IInv, FormOK, Granted, Copying
<1>5. p \in Copying /\ p \notin Reviewing \cup {"bind", "authorize"}
  BY SMT DEF Copying, Reviewing
<1>6. FormOK(h'[c])
  BY <1>2, <1>3, <1>4, <1>5, Zenon DEF FormOK
<1>7. QED
  BY <1>1, <1>2, <1>5, <1>6, Zenon

\* The mutex is taken.
LEMMA SyncDataKept == ASSUME IInv, NEW c \in Handlers, syncData(c) PROVE IInv'
<1> DEFINE t == h[c].tok
<1>1. /\ h[c].pc = "sync" /\ mu = None /\ up = "serving" /\ t \in Tokens
      /\ UNCHANGED <<web, client, keystone, kube, bindings>>
  BY Served, Zenon DEF syncData, At, IInv, FormOK, Granted, kube
<1>2. CASE Project(t) \in Config(sc).black
  BY <1>1, <1>2, OverKept, Zenon DEF syncData
<1>3. CASE Project(t) \notin Config(sc).black
  <2>1. PICK p \in {"namespace", "list"} : Goto(c, p)
    BY <1>3, Zenon DEF syncData
  <2>2. mu' = c /\ synced' = [x \in Tokens |->
                 IF x = t THEN [ns |-> Namespace(c), roles |-> h[c].roles, done |-> FALSE]
                 ELSE IF x \in Alike(t) THEN None ELSE synced[x]]
    BY <1>3, Zenon DEF syncData
  <2>3. Only(c) /\ FormOK(h'[c]) /\ h'[c].pc = p /\ p \in Copying /\ h'[c].tok = t /\ h'[c].roles = h[c].roles
    BY <1>1, <2>1, CopyMoves, Zenon
  <2>4. synced'[t] = [ns |-> Namespace(c), roles |-> h[c].roles, done |-> FALSE]
    BY <1>1, <2>2, Zenon
  <2>5. synced'[t].ns = Namespace(c) /\ synced'[t].roles = h[c].roles /\ synced'[t].done = FALSE
    BY <2>4, SMT
  <2>6. \A x \in Tokens \ {t} : synced'[x] = IF x \in Alike(t) THEN None ELSE synced[x]
    BY <2>2, Zenon
  <2>7. Namespace(c)' = Namespace(c)
    BY <1>1, <2>3, Zenon DEF Namespace, web
  <2>8. CopyOK(c)'
    <3>1. ~At(c, "bind")'
      BY <2>1, <2>3, SMT DEF At
    <3>2. \A x \in Alike(t) \ {t} : synced'[x] = None
      BY <2>6, Zenon DEF Alike
    <3>3. QED
      BY <2>2, <2>3, <2>5, <2>7, <3>1, <3>2, Zenon DEF CopyOK
  <2>9. synced' = [x \in Tokens |-> synced'[x]]
    BY <2>2, Zenon
  <2>10. \A x \in Tokens : SyncedOK(x)'
    <3>1. ASSUME NEW x \in Tokens, x = t PROVE SyncedOK(x)'
      BY <2>4, <2>5, <3>1, NamespaceNamed, Zenon DEF SyncedOK
    <3>2. \A x \in Tokens \ {t} : SyncedOK(x)'
      BY <2>6, Zenon DEF SyncedOK, IInv
    <3>3. QED
      BY <3>1, <3>2, Zenon
  <2>11. BindingsAsCopied'
    BY <1>1, <2>5, <2>6, Zenon DEF IInv, BindingsAsCopied
  <2>12. ReviewOK(c)' /\ AccessOK(c)' /\ ~Asking(c)'
    BY <2>3, Zenon DEF ReviewOK, AccessOK, Asking, At, Copying
  <2>13. QED
    BY <1>1, <2>3, <2>8, <2>9, <2>10, <2>11, <2>12, StepKept, Zenon
<1>4. QED
  BY <1>2, <1>3, Zenon


\* The namespace is read and created.
LEMMA ProjectKept == ASSUME IInv, NEW c \in Handlers, syncProjectData(c) \/ CreateNamespace(c) PROVE IInv'
<1>1. /\ h[c].pc \in {"namespace", "create"} /\ h[c].pc \in Copying /\ up = "serving"
      /\ UNCHANGED <<web, client, keystone, bindings, synced>>
  BY Served, Zenon DEF syncProjectData, CreateNamespace, At, Copying, kube
<1>2. /\ BindingsAsCopied' /\ synced' = [t \in Tokens |-> synced'[t]] /\ \A t \in Tokens : SyncedOK(t)'
  BY <1>1, Zenon DEF IInv, BindingsAsCopied, SyncedOK
<1>3. CASE Unlock(c)
  BY <1>1, <1>2, <1>3, UnlockKept, Zenon
<1>4. ASSUME NEW p \in {"create", "list"}, Goto(c, p), mu' = mu PROVE IInv'
  <2>1. Only(c) /\ FormOK(h'[c]) /\ h'[c].pc = p /\ p \in Copying /\ h'[c].tok = h[c].tok /\ h'[c].roles = h[c].roles
    BY <1>1, <1>4, CopyMoves, Zenon
  <2>2. p # "bind"
    BY <1>4, SMT
  <2>3. QED
    BY <1>1, <1>2, <1>4, <2>1, <2>2, CopyGoesOn, Zenon
<1>5. Unlock(c) \/ \E p \in {"create", "list"} : Goto(c, p) /\ mu' = mu
  BY Zenon DEF syncProjectData, CreateNamespace, AfterProject
<1>6. QED
  BY <1>3, <1>4, <1>5, Zenon

\* The bindings are listed.
LEMMA ListKept == ASSUME IInv, NEW c \in Handlers, ListRoleBindings(c) PROVE IInv'
<1>1. /\ h[c].pc = "list" /\ h[c].pc \in Copying /\ up = "serving"
      /\ UNCHANGED <<web, client, keystone, bindings, synced>>
      /\ h[c].tok \in Tokens /\ h[c].roles \subseteq Roles
  BY Served, Zenon DEF ListRoleBindings, At, Copying, kube, IInv, FormOK, Granted
<1>2. /\ BindingsAsCopied' /\ synced' = [t \in Tokens |-> synced'[t]] /\ \A t \in Tokens : SyncedOK(t)'
  BY <1>1, Zenon DEF IInv, BindingsAsCopied, SyncedOK
<1>3. CASE Unlock(c)
  BY <1>1, <1>2, <1>3, UnlockKept, Zenon
<1> DEFINE x == [pc |-> "bind", tok |-> h[c].tok, roles |-> h[c].roles,
                 drop |-> Mine(c) \ h[c].roles, add |-> h[c].roles \ Mine(c)]
<1>4. CASE h' = [h EXCEPT ![c] = x] /\ mu' = mu
  <2>1. /\ x.pc = "bind" /\ x.tok = h[c].tok /\ x.roles = h[c].roles
        /\ x.drop = Mine(c) \ h[c].roles /\ x.add = h[c].roles \ Mine(c)
    BY Fields, Zenon
  <2>2. IsBind(x)
    BY <2>1, Zenon DEF IsBind
  <2> HIDE DEF x
  <2>3. h'[c] = x /\ Only(c)
    BY <1>4, SetMoves, Zenon
  <2>4. x.add \subseteq x.roles /\ x.drop \cap x.roles = {} /\ Mine(c) = (x.roles \cup x.drop) \ x.add
    BY <2>1, Zenon
  <2>5. FormOK(h'[c]) /\ h'[c].pc \in Copying
    BY <1>1, <2>1, <2>2, <2>3, <2>4, Zenon DEF FormOK, Reviewing, Copying
  <2>6. Mine(c)' = Mine(c)
    BY <1>1, <2>1, <2>3, Zenon DEF Mine, Namespace, web
  <2>7. QED
    BY <1>1, <1>2, <1>4, <2>1, <2>3, <2>4, <2>5, <2>6, CopyGoesOn, Zenon
<1>5. QED
  BY <1>3, <1>4, Zenon DEF ListRoleBindings

\* What a copy is still to drop changes.
LEMMA DropChanges ==
  ASSUME NEW x, IsBind(x), NEW s, NEW y, y = [x EXCEPT !.drop = s]
  PROVE  IsBind(y) /\ y.pc = x.pc /\ y.tok = x.tok /\ y.roles = x.roles /\ y.drop = s /\ y.add = x.add
  BY SMT DEF IsBind

\* So does the list of what is to be added.
LEMMA AddChanges ==
  ASSUME NEW x, IsBind(x), NEW s, NEW y, y = [x EXCEPT !.add = s]
  PROVE  IsBind(y) /\ y.pc = x.pc /\ y.tok = x.tok /\ y.roles = x.roles /\ y.drop = x.drop /\ y.add = s
  BY SMT DEF IsBind

\* A binding is deleted or created.
LEMMA BindKept == ASSUME IInv, NEW c \in Handlers, DeleteRoleBinding(c) \/ CreateRoleBinding(c) PROVE IInv'
<1>1. /\ h[c].pc = "bind" /\ h[c].pc \in Copying /\ up = "serving" /\ UNCHANGED <<web, client, keystone, synced>>
      /\ h[c].tok \in Tokens /\ h[c].roles \subseteq Roles
      /\ IsBind(h[c]) /\ h[c].add \subseteq h[c].roles /\ h[c].drop \cap h[c].roles = {}
  BY Served, Zenon DEF DeleteRoleBinding, CreateRoleBinding, At, Copying, IInv, FormOK, Granted
<1>2. synced' = [t \in Tokens |-> synced'[t]] /\ \A t \in Tokens : SyncedOK(t)'
  BY <1>1, Zenon DEF IInv, SyncedOK
<1> DEFINE b(r) == <<Namespace(c), User(h[c].tok), r>>
<1>3. ASSUME NEW r, bindings' \in {bindings, bindings \ {b(r)}, bindings \cup {b(r)}}, Unlock(c) PROVE IInv'
  <2>1. BindingsAsCopied'
    BY <1>1, <1>3, CopiedStays, Zenon
  <2>2. QED
    BY <1>1, <1>2, <1>3, <2>1, UnlockKept, Zenon
<1>4. ASSUME NEW r, NEW x, h' = [h EXCEPT ![c] = x], IsBind(x), x.pc = "bind", x.tok = h[c].tok, x.roles = h[c].roles,
             x.add \subseteq h[c].add, x.drop \subseteq h[c].drop, mu' = mu,
             \/ bindings' = bindings \ {b(r)} /\ x.drop = h[c].drop \ {r} /\ x.add = h[c].add /\ r \notin h[c].roles
             \/ bindings' = bindings \cup {b(r)} /\ x.add = h[c].add \ {r} /\ x.drop = h[c].drop /\ r \in h[c].roles
      PROVE  IInv'
  <2>1. h'[c] = x /\ Only(c)
    BY <1>4, SetMoves, Zenon
  <2>2. BindingsAsCopied'
    BY <1>1, <1>4, CopiedStays, Zenon
  <2>3. FormOK(h'[c]) /\ h'[c].pc \in Copying
    BY <1>1, <1>4, <2>1, Zenon DEF FormOK, Reviewing, Copying
  <2>4. Namespace(c)' = Namespace(c) /\ User(h'[c].tok) = User(h[c].tok)
    BY <1>1, <1>4, <2>1, Zenon DEF Namespace, web
  <2>5. Mine(c)' = {q \in Roles : b(q) \in bindings'}
    BY <2>4, Zenon DEF Mine
  <2>6. \A q : b(q) = b(r) <=> q = r
    BY SMT
  <2> HIDE DEF b
  <2>7. ASSUME synced[h[c].tok] # None PROVE Mine(c)' = (x.roles \cup x.drop) \ x.add
    <3>1. Mine(c) = {q \in Roles : b(q) \in bindings}
      BY Zenon DEF Mine, b
    <3>2. Mine(c) = (h[c].roles \cup h[c].drop) \ h[c].add
      BY <1>1, <2>7, Zenon DEF IInv, CopyOK, At
    <3>3. CASE /\ bindings' = bindings \ {b(r)} /\ x.drop = h[c].drop \ {r} /\ x.add = h[c].add
               /\ r \notin h[c].roles
      <4>1. Mine(c)' = Mine(c) \ {r}
        BY <2>5, <2>6, <3>1, <3>3, Zenon
      <4>2. QED
        BY <1>4, <3>2, <3>3, <4>1, Zenon
    <3>4. CASE /\ bindings' = bindings \cup {b(r)} /\ x.add = h[c].add \ {r} /\ x.drop = h[c].drop
               /\ r \in h[c].roles
      <4>1. r \in Roles
        BY <1>1, <3>4, Zenon
      <4>2. \A q \in Roles : q \in Mine(c)' <=> q \in Mine(c) \/ q = r
        BY <2>5, <2>6, <3>1, <3>4, Zenon
      <4>3. Mine(c)' \subseteq Roles /\ Mine(c) \subseteq Roles
        BY <2>5, <3>1, Zenon
      <4>4. Mine(c)' = Mine(c) \cup {r}
        BY <4>1, <4>2, <4>3, Zenon
      <4>5. QED
        BY <1>4, <3>2, <3>4, <4>4, Zenon
    <3>5. QED
      BY <1>4, <3>3, <3>4, Zenon
  <2>8. QED
    BY <1>1, <1>4, <2>1, <2>2, <2>3, <2>7, CopyGoesOn, Zenon
<1> HIDE DEF b
<1>5. CASE DeleteRoleBinding(c)
  <2>1. PICK r \in h[c].drop :
          \/ bindings' = bindings \ {b(r)} /\ h' = [h EXCEPT ![c].drop = @ \ {r}] /\ mu' = mu
          \/ bindings' \in {bindings, bindings \ {b(r)}} /\ Unlock(c)
    BY <1>5, Zenon DEF DeleteRoleBinding, b
  <2>2. CASE bindings' = bindings \ {b(r)} /\ h' = [h EXCEPT ![c].drop = @ \ {r}] /\ mu' = mu
    <3> DEFINE x == [h[c] EXCEPT !.drop = h[c].drop \ {r}]
    <3>1. h' = [h EXCEPT ![c] = x]
      BY <2>2, Zenon
    <3>2. /\ IsBind(x) /\ x.pc = "bind" /\ x.tok = h[c].tok /\ x.roles = h[c].roles
          /\ x.drop = h[c].drop \ {r} /\ x.add = h[c].add
      <4> DEFINE w == h[c]
                 s == h[c].drop \ {r}
      <4>1. x = [w EXCEPT !.drop = s] /\ IsBind(w)
        BY <1>1, Zenon
      <4> HIDE DEF x, w, s
      <4>2. IsBind(x) /\ x.pc = w.pc /\ x.tok = w.tok /\ x.roles = w.roles /\ x.drop = s /\ x.add = w.add
        BY <4>1, DropChanges, SMT
      <4>3. QED
        BY <1>1, <4>2, Zenon DEF w, s
    <3> HIDE DEF x
    <3>3. r \notin h[c].roles /\ x.drop \subseteq h[c].drop /\ x.add \subseteq h[c].add
      BY <1>1, <3>2, Zenon
    <3>4. QED
      BY <1>4, <2>2, <3>1, <3>2, <3>3, Zenon
  <2>3. CASE bindings' \in {bindings, bindings \ {b(r)}} /\ Unlock(c)
    <3>1. bindings' \in {bindings, bindings \ {b(r)}, bindings \cup {b(r)}}
      BY <2>3, Zenon
    <3>2. QED
      BY <1>3, <2>3, <3>1, SMT
  <2>4. QED
    BY <2>1, <2>2, <2>3, Zenon
<1>6. CASE CreateRoleBinding(c)
  <2>1. PICK r \in h[c].add :
          \/ bindings' = bindings \cup {b(r)} /\ h' = [h EXCEPT ![c].add = @ \ {r}] /\ mu' = mu
          \/ bindings' \in {bindings, bindings \cup {b(r)}} /\ Unlock(c)
    BY <1>6, Zenon DEF CreateRoleBinding, b
  <2>2. CASE bindings' = bindings \cup {b(r)} /\ h' = [h EXCEPT ![c].add = @ \ {r}] /\ mu' = mu
    <3> DEFINE x == [h[c] EXCEPT !.add = h[c].add \ {r}]
    <3>1. h' = [h EXCEPT ![c] = x]
      BY <2>2, Zenon
    <3>2. /\ IsBind(x) /\ x.pc = "bind" /\ x.tok = h[c].tok /\ x.roles = h[c].roles
          /\ x.add = h[c].add \ {r} /\ x.drop = h[c].drop
      <4> DEFINE w == h[c]
                 s == h[c].add \ {r}
      <4>1. x = [w EXCEPT !.add = s] /\ IsBind(w)
        BY <1>1, Zenon
      <4> HIDE DEF x, w, s
      <4>2. IsBind(x) /\ x.pc = w.pc /\ x.tok = w.tok /\ x.roles = w.roles /\ x.add = s /\ x.drop = w.drop
        BY <4>1, AddChanges, SMT
      <4>3. QED
        BY <1>1, <4>2, Zenon DEF w, s
    <3> HIDE DEF x
    <3>3. r \in h[c].roles /\ x.drop \subseteq h[c].drop /\ x.add \subseteq h[c].add
      BY <1>1, <3>2, Zenon
    <3>4. QED
      BY <1>4, <2>2, <3>1, <3>2, <3>3, Zenon
  <2>3. CASE bindings' \in {bindings, bindings \cup {b(r)}} /\ Unlock(c)
    <3>1. bindings' \in {bindings, bindings \ {b(r)}, bindings \cup {b(r)}}
      BY <2>3, Zenon
    <3>2. QED
      BY <1>3, <2>3, <3>1, SMT
  <2>4. QED
    BY <2>1, <2>2, <2>3, Zenon
<1>7. QED
  BY <1>5, <1>6, Zenon

\* A copy is marked as done.
LEMMA DoneSet ==
  ASSUME NEW n, NEW r, NEW d, NEW y, y = [ns |-> n, roles |-> r, done |-> d], NEW e, NEW z, z = [y EXCEPT !.done = e]
  PROVE  z = [ns |-> n, roles |-> r, done |-> e]
  BY SMT

\* Everything is copied: the bindings are the roles.
LEMMA CopyDone == ASSUME IInv, NEW c \in Handlers, syncRoleAssignmentsData(c) PROVE IInv'
<1> DEFINE t == h[c].tok
<1>1. /\ h[c].pc = "bind" /\ h[c].pc \in Copying /\ up = "serving" /\ UNCHANGED <<web, client, keystone, bindings>>
      /\ Unlock(c) /\ t \in Tokens /\ h[c].drop = {} /\ h[c].add = {} /\ CopyOK(c)
  BY Served, Zenon DEF syncRoleAssignmentsData, At, Copying, IInv, FormOK, Granted, kube
<1>2. synced' = [x \in Tokens |-> synced'[x]] /\ \A x \in Tokens \ {t} : synced'[x] = synced[x]
  BY Zenon DEF IInv, syncRoleAssignmentsData
<1>3. synced'[t] = IF synced[t] = None THEN None ELSE [synced[t] EXCEPT !.done = TRUE]
  BY <1>1, Zenon DEF IInv, syncRoleAssignmentsData
<1>4. ASSUME synced[t] # None
      PROVE  /\ synced'[t] = [ns |-> synced[t].ns, roles |-> synced[t].roles, done |-> TRUE]
             /\ synced'[t].ns = synced[t].ns /\ synced'[t].roles = synced[t].roles /\ synced'[t].done = TRUE
  <2> DEFINE y == synced[t]
             z == synced'[t]
  <2>1. z = [y EXCEPT !.done = TRUE] /\ y = [ns |-> y.ns, roles |-> y.roles, done |-> y.done]
    BY <1>1, <1>3, <1>4, Zenon DEF IInv, SyncedOK
  <2> HIDE DEF y, z
  <2>2. z = [ns |-> y.ns, roles |-> y.roles, done |-> TRUE]
    BY <2>1, DoneSet, Zenon
  <2>3. z.ns = y.ns /\ z.roles = y.roles /\ z.done = TRUE
    BY <2>2, SMT
  <2>4. QED
    BY <2>2, <2>3, Zenon DEF y, z
<1>5. ASSUME NEW x \in Tokens PROVE SyncedOK(x)'
  <2>1. SyncedOK(x)
    BY Zenon DEF IInv
  <2>2. CASE x # t
    BY <1>2, <2>1, <2>2, Zenon DEF SyncedOK
  <2>3. CASE x = t /\ synced[t] = None
    BY <1>3, <2>3, Zenon DEF SyncedOK
  <2>4. CASE x = t /\ synced[t] # None
    BY <1>4, <2>1, <2>4, Zenon DEF SyncedOK
  <2>5. QED
    BY <2>2, <2>3, <2>4, Zenon
<1>6. BindingsAsCopied'
  <2>1. ASSUME synced[t] # None PROVE {r \in Roles : <<synced[t].ns, User(t), r>> \in bindings} = synced[t].roles
    <3>1. synced[t].ns = Namespace(c) /\ synced[t].roles = h[c].roles /\ Mine(c) = (h[c].roles \cup {}) \ {}
      BY <1>1, <2>1, Zenon DEF CopyOK, At
    <3>2. Mine(c) = h[c].roles
      BY <3>1, Zenon
    <3>3. QED
      BY <3>1, <3>2, Zenon DEF Mine
  <2>2. ASSUME NEW x \in Tokens, synced'[x] # None, synced'[x].done, synced'[x].ns # "shared"
        PROVE  {r \in Roles : <<synced'[x].ns, User(x), r>> \in bindings'} = synced'[x].roles
    <3>1. CASE x = t
      BY <1>1, <1>3, <1>4, <2>1, <2>2, <3>1, Zenon
    <3>2. CASE x # t
      BY <1>1, <1>2, <2>2, <3>2, Zenon DEF IInv, BindingsAsCopied
    <3>3. QED
      BY <3>1, <3>2, Zenon
  <2>3. QED
    BY <2>2, Zenon DEF BindingsAsCopied
<1>7. QED
  BY <1>1, <1>2, <1>5, <1>6, UnlockKept, Zenon

-----------------------------------------------------------------------------
(* What changes for all requests at once *)

\* What is said of the requests.
AllFit == \A d \in Handlers : FormOK(h[d]) /\ ReviewOK(d) /\ CopyOK(d) /\ AccessOK(d)

\* Idle requests fit everything.
LEMMA IdleFit == ASSUME \A d \in Handlers : h[d] = Idle PROVE AllFit
<1>1. \A d \in Handlers : h[d].pc = "idle"
  BY IdlesAt, Zenon
<1>2. QED
  BY <1>1, Zenon DEF AllFit, FormOK, ReviewOK, CopyOK, AccessOK, At, Asking, Reviewing, Copying, Granted

\* A request that does not ask Keystone is left alone.
LEMMA LeftAlone ==
  ASSUME IInv, NEW d \in Handlers, ~Asking(d), h'[d] = h[d], UNCHANGED <<mu, sc, synced, bindings, pl>>
  PROVE  FormOK(h'[d]) /\ ReviewOK(d)' /\ CopyOK(d)' /\ AccessOK(d)'
<1>1. FormOK(h[d]) /\ ReviewOK(d) /\ CopyOK(d) /\ AccessOK(d)
  BY Zenon DEF IInv
<1>2. ReviewOK(d)'
  BY <1>1, Zenon DEF ReviewOK, At, Asking
<1>3. CopyOK(d)'
  BY <1>1, Zenon DEF CopyOK, At, Mine, Namespace
<1>4. AccessOK(d)'
  BY <1>1, Zenon DEF AccessOK, At
<1>5. QED
  BY <1>1, <1>2, <1>3, <1>4, Zenon

\* The excuse of a token review changes.
LEMMA ExcusedChanges ==
  ASSUME NEW x, IsReview(x), NEW e, NEW y, y = [x EXCEPT !.excused = e]
  PROVE  IsReview(y) /\ y.pc = x.pc /\ y.tok = x.tok /\ y.roles = x.roles /\ y.had = x.had /\ y.excused = e
  BY SMT DEF IsReview

\* So does what a token had.
LEMMA HadChanges ==
  ASSUME NEW x, IsReview(x), NEW g, NEW y, y = [x EXCEPT !.had = g]
  PROVE  IsReview(y) /\ y.pc = x.pc /\ y.tok = x.tok /\ y.roles = x.roles /\ y.had = g /\ y.excused = x.excused
  BY SMT DEF IsReview

\* A token review that goes on asking fits when its history does.
LEMMA AskingFits ==
  ASSUME IInv, NEW d \in Handlers, Asking(d), IsReview(h'[d]),
         h'[d].pc = h[d].pc, h'[d].tok = h[d].tok, h'[d].roles = h[d].roles, h[d].had \subseteq h'[d].had,
         ~h'[d].excused => ~h[d].excused /\ h[d].tok \in valid' /\ \A e \in Handlers \ {d} : ~Asking(e)',
         h[d].tok \in valid' => roles'[h[d].tok] \in h'[d].had, UNCHANGED client
  PROVE  FormOK(h'[d]) /\ ReviewOK(d)' /\ CopyOK(d)' /\ AccessOK(d)'
<1>1. FormOK(h[d]) /\ ReviewOK(d)
  BY Zenon DEF IInv
<1>2. h[d].pc \in Reviewing /\ h[d].pc \notin Copying \cup {"sync", "authorize", "decided", "answered", "denied"}
  BY SMT DEF Asking, Reviewing, Copying
<1>3. FormOK(h'[d])
  BY <1>1, <1>2, Zenon DEF FormOK, Copying
<1>4. ReviewOK(d)'
  <2>1. h'[d].roles = h[d].roles /\ (h[d].pc \in {"groups", "answer", "answered"} => h[d].roles \in h'[d].had)
    BY <1>1, Zenon DEF ReviewOK
  <2>2. ~h'[d].excused /\ ~At(d, "begin") => client' = h'[d].tok
    BY <1>1, Zenon DEF ReviewOK
  <2>3. ~At(d, "answered")' /\ ~At(d, "denied")' /\ (At(d, "begin")' <=> At(d, "begin"))
    BY <1>2, Zenon DEF At
  <2>4. (~h'[d].excused => h'[d].tok \in valid') /\ (h'[d].tok \in valid' => roles'[h'[d].tok] \in h'[d].had)
    BY SMT
  <2>5. QED
    BY <2>1, <2>2, <2>3, <2>4, Zenon DEF ReviewOK
<1>5. CopyOK(d)' /\ AccessOK(d)'
  BY <1>2, Zenon DEF CopyOK, AccessOK, At
<1>6. QED
  BY <1>3, <1>4, <1>5, Zenon

\* A new token review excuses those that it overlaps with.
LEMMA TokenReviewKept == ASSUME IInv, NEW c \in Handlers, NEW t \in Tokens, TokenReview(c, t) PROVE IInv'
<1> DEFINE x == [pc |-> "begin", tok |-> t, roles |-> {}, had |-> Current(t), excused |-> t \notin valid \/ Overlapping(c)]
<1>1. /\ up = "serving" /\ h[c].pc = "idle" /\ UNCHANGED <<web, client, mu, keystone, kube, synced>>
      /\ UNCHANGED <<pl, sc, maps, seen, queue, work, up, valid, roles, bindings>>
  BY Zenon DEF TokenReview, At, web, keystone, kube
<1>2. /\ h' = [d \in Handlers |-> h'[d]] /\ h'[c] = x
      /\ \A d \in Handlers \ {c} : h'[d] = IF Asking(d) THEN [h[d] EXCEPT !.excused = TRUE] ELSE h[d]
  BY Zenon DEF TokenReview
<1>3. /\ x.pc = "begin" /\ x.tok = t /\ x.roles = {} /\ x.had = Current(t)
      /\ x.excused = (t \notin valid \/ Overlapping(c))
  BY Fields, Zenon
<1>4. IsReview(x)
  BY <1>3, Zenon DEF IsReview
<1> HIDE DEF x
<1>5. ASSUME NEW d \in Handlers \ {c}, Asking(d)
      PROVE  /\ IsReview(h'[d]) /\ h'[d].pc = h[d].pc /\ h'[d].tok = h[d].tok /\ h'[d].roles = h[d].roles
             /\ h'[d].had = h[d].had /\ h'[d].excused = TRUE
  <2> DEFINE w == h[d]
             y == h'[d]
  <2>1. h[d].pc \in Reviewing
    BY <1>5, Zenon DEF Asking, Reviewing
  <2>2. IsReview(w) /\ y = [w EXCEPT !.excused = TRUE]
    BY <1>2, <1>5, <2>1, Zenon DEF IInv, FormOK
  <2> HIDE DEF w, y
  <2>3. IsReview(y) /\ y.pc = w.pc /\ y.tok = w.tok /\ y.roles = w.roles /\ y.had = w.had /\ y.excused = TRUE
    BY <2>2, ExcusedChanges, SMT
  <2>4. QED
    BY <2>3, Zenon DEF w, y
<1>6. \A d \in Handlers \ {c} : Asking(d)' => Asking(d)
  BY <1>2, Zenon DEF Asking
<1>7. FormOK(h'[c]) /\ ReviewOK(c)' /\ CopyOK(c)' /\ AccessOK(c)'
  <2>1. h'[c].pc = "begin" /\ h'[c].tok = t
    BY <1>2, <1>3, Zenon
  <2>2. FormOK(h'[c])
    BY <1>2, <1>4, <2>1, Zenon DEF FormOK, Reviewing, Granted, Copying
  <2>3. ~h'[c].excused => t \in valid' /\ \A d \in Handlers \ {c} : ~Asking(d)'
    BY <1>1, <1>2, <1>3, <1>6, Zenon DEF Overlapping
  <2>4. t \in valid' => roles'[t] \in h'[c].had
    BY <1>1, <1>2, <1>3, Zenon DEF Current
  <2>5. ReviewOK(c)'
    BY <2>1, <2>3, <2>4, Zenon DEF ReviewOK, At
  <2>6. CopyOK(c)' /\ AccessOK(c)'
    BY <2>1, Zenon DEF CopyOK, AccessOK, At, Copying
  <2>7. QED
    BY <2>2, <2>5, <2>6, Zenon
<1>8. ASSUME NEW d \in Handlers \ {c} PROVE FormOK(h'[d]) /\ ReviewOK(d)' /\ CopyOK(d)' /\ AccessOK(d)'
  <2>1. CASE ~Asking(d)
    BY <1>1, <1>2, <2>1, LeftAlone, Zenon
  <2>2. CASE Asking(d)
    <3>1. h[d].tok \in valid' => roles'[h[d].tok] \in h'[d].had
      BY <1>1, <1>5, <2>2, Zenon DEF IInv, ReviewOK
    <3>2. QED
      BY <1>1, <1>5, <2>2, <3>1, AskingFits, Zenon
  <2>3. QED
    BY <2>1, <2>2, Zenon
<1>9. KeystoneOK' /\ MapsOK' /\ BindingsAsCopied' /\ (\A u \in Tokens : SyncedOK(u)') /\ synced' = [u \in Tokens |-> synced'[u]]
  BY <1>1, Zenon DEF IInv, KeystoneOK, MapsOK, BindingsAsCopied, SyncedOK
<1>10. QED
  BY <1>1, <1>2, <1>7, <1>8, <1>9, Zenon DEF IInv

\* Keystone changes a token: the reviews of it are told.
LEMMA EditTokenKept == ASSUME IInv, EditToken PROVE IInv'
<1>1. /\ UNCHANGED <<web, client, mu, kube, synced>>
      /\ UNCHANGED <<pl, sc, maps, seen, queue, work, up, bindings>>
  BY Zenon DEF EditToken, web, kube
<1>2. KeystoneOK'
  <2>1. PICK t \in valid :
          \/ valid' = valid \ {t} /\ UNCHANGED roles
          \/ \E rs \in SUBSET Roles : roles' = [roles EXCEPT ![t] = rs] /\ UNCHANGED valid
    BY Zenon DEF EditToken
  <2>2. KeystoneOK
    BY Zenon DEF IInv
  <2>3. CASE valid' = valid \ {t} /\ UNCHANGED roles
    BY <2>2, <2>3, Zenon DEF KeystoneOK
  <2>4. CASE \E rs \in SUBSET Roles : roles' = [roles EXCEPT ![t] = rs] /\ UNCHANGED valid
    BY <2>2, <2>4, SMT DEF KeystoneOK
  <2>5. QED
    BY <2>1, <2>3, <2>4, Zenon
<1> DEFINE more(d) == h[d].had \cup (IF h[d].tok \in valid' THEN {roles'[h[d].tok]} ELSE {})
           gone(d) == h[d].excused \/ h[d].tok \notin valid'
<1>3. /\ h' = [d \in Handlers |-> h'[d]]
      /\ \A d \in Handlers : h'[d] = IF Asking(d) THEN [h[d] EXCEPT !.had = more(d), !.excused = gone(d)] ELSE h[d]
  BY Zenon DEF EditToken
<1> HIDE DEF more, gone
<1>4. ASSUME NEW d \in Handlers, Asking(d)
      PROVE  /\ IsReview(h'[d]) /\ h'[d].pc = h[d].pc /\ h'[d].tok = h[d].tok /\ h'[d].roles = h[d].roles
             /\ h'[d].had = more(d) /\ h'[d].excused = gone(d)
  <2> DEFINE w == h[d]
             v == [h[d] EXCEPT !.had = more(d)]
             y == h'[d]
             g == more(d)
             e == gone(d)
  <2>1. h[d].pc \in Reviewing
    BY <1>4, Zenon DEF Asking, Reviewing
  <2>2. IsReview(w) /\ v = [w EXCEPT !.had = g] /\ y = [v EXCEPT !.excused = e]
    BY <1>3, <1>4, <2>1, Zenon DEF IInv, FormOK
  <2> HIDE DEF w, v, y, g, e
  <2>3. IsReview(v) /\ v.pc = w.pc /\ v.tok = w.tok /\ v.roles = w.roles /\ v.had = g
    BY <2>2, HadChanges, SMT
  <2>4. IsReview(v) /\ y = [v EXCEPT !.excused = e]
    BY <2>2, <2>3, Zenon
  <2>5. IsReview(y) /\ y.pc = v.pc /\ y.tok = v.tok /\ y.roles = v.roles /\ y.had = v.had /\ y.excused = e
    BY <2>4, ExcusedChanges, SMT
  <2>6. QED
    BY <2>3, <2>5, Zenon DEF w, y, g, e
<1>5. \A d \in Handlers : Asking(d)' => Asking(d)
  BY <1>3, Zenon DEF Asking
<1>6. ASSUME NEW d \in Handlers PROVE FormOK(h'[d]) /\ ReviewOK(d)' /\ CopyOK(d)' /\ AccessOK(d)'
  <2>1. CASE ~Asking(d)
    BY <1>1, <1>3, <2>1, LeftAlone, Zenon
  <2>2. CASE Asking(d)
    <3>1. h[d].had \subseteq h'[d].had /\ (h[d].tok \in valid' => roles'[h[d].tok] \in h'[d].had)
      BY <1>4, <2>2, Zenon DEF more
    <3>2. ~h'[d].excused => ~h[d].excused /\ h[d].tok \in valid'
      BY <1>4, <2>2, Zenon DEF gone
    <3>3. ~h[d].excused => \A e \in Handlers \ {d} : ~Asking(e)'
      BY <1>5, <2>2, Zenon DEF IInv, ReviewOK
    <3>4. QED
      BY <1>1, <1>4, <2>2, <3>1, <3>2, <3>3, AskingFits, Zenon
  <2>3. QED
    BY <2>1, <2>2, Zenon
<1>7. MapsOK' /\ BindingsAsCopied' /\ (\A u \in Tokens : SyncedOK(u)') /\ synced' = [u \in Tokens |-> synced'[u]]
  BY <1>1, Zenon DEF IInv, MapsOK, BindingsAsCopied, SyncedOK
<1>8. up' # "serving" => mu' = None /\ \A d \in Handlers : h'[d] = Idle
  BY <1>1, <1>3, IdlesAt, Zenon DEF IInv, Asking
<1>9. QED
  BY <1>2, <1>3, <1>6, <1>7, <1>8, Zenon DEF IInv


\* The list in force is replaced, and the access reviews in progress have seen it.
LEMMA PoliciesKept ==
  ASSUME IInv, updatePolicies, work.got \in Versions("policy"), MapsOK',
         UNCHANGED <<up, client, mu, keystone, kube, synced>>
  PROVE  IInv'
<1>1. UNCHANGED <<sc, valid, roles, bindings, client>>
  BY Zenon DEF updatePolicies, keystone, kube
<1>2. /\ h' = [d \in Handlers |-> h'[d]] /\ pl' = work.got
      /\ \A d \in Handlers : h'[d] = IF h[d].pc = "authorize" THEN [h[d] EXCEPT !.lists = @ \cup {work.got}] ELSE h[d]
  BY Zenon DEF updatePolicies, Witnessed, At
<1>3. ASSUME NEW x, NEW s, IsAccess(x), NEW y, y = [x EXCEPT !.lists = s]
      PROVE  IsAccess(y) /\ y.pc = x.pc /\ y.lists = s
  BY <1>3, SMT DEF IsAccess
<1>4. ASSUME NEW d \in Handlers, h[d].pc = "authorize"
      PROVE  IsAccess(h'[d]) /\ h'[d].pc = "authorize" /\ pl' \in h'[d].lists
  <2> DEFINE w == h[d]
             s == h[d].lists \cup {work.got}
             y == h'[d]
  <2>1. IsAccess(w) /\ y = [w EXCEPT !.lists = s]
    BY <1>2, <1>4, Zenon DEF IInv, FormOK
  <2> HIDE DEF w, s, y
  <2>2. IsAccess(y) /\ y.pc = w.pc /\ y.lists = s
    BY <1>3, <2>1, SMT
  <2>3. QED
    BY <1>2, <1>4, <2>2, Zenon DEF w, s, y
<1>5. \A d \in Handlers : Asking(d)' <=> Asking(d)
  BY <1>2, <1>4, Zenon DEF Asking
<1>6. ASSUME NEW d \in Handlers PROVE FormOK(h'[d]) /\ ReviewOK(d)' /\ CopyOK(d)' /\ AccessOK(d)'
  <2>1. CASE h[d].pc = "authorize"
    BY <1>4, <2>1, Zenon DEF FormOK, ReviewOK, CopyOK, AccessOK, At, Asking, Reviewing, Granted, Copying
  <2>2. CASE h[d].pc # "authorize"
    <3>1. h'[d] = h[d] /\ FormOK(h[d]) /\ ReviewOK(d) /\ CopyOK(d) /\ AccessOK(d)
      BY <1>2, <2>2, Zenon DEF IInv
    <3>2. ReviewOK(d)'
      BY <1>1, <1>5, <3>1, Zenon DEF ReviewOK, At
    <3>3. CopyOK(d)'
      BY <1>1, <3>1, Zenon DEF CopyOK, At, Mine, Namespace
    <3>4. AccessOK(d)'
      BY <2>2, <3>1, Zenon DEF AccessOK, At
    <3>5. QED
      BY <3>1, <3>2, <3>3, <3>4, Zenon
  <2>3. QED
    BY <2>1, <2>2, Zenon
<1>7. KeystoneOK' /\ BindingsAsCopied' /\ (\A u \in Tokens : SyncedOK(u)') /\ synced' = [u \in Tokens |-> synced'[u]]
  BY <1>1, Zenon DEF IInv, KeystoneOK, BindingsAsCopied, SyncedOK
<1>8. up' # "serving" => mu' = None /\ \A d \in Handlers : h'[d] = Idle
  BY <1>2, IdlesAt, Zenon DEF IInv
<1>9. QED
  BY <1>2, <1>6, <1>7, <1>8, Zenon DEF IInv

\* The maps change, or what is known of them; the configuration in force only while
\* nothing depends on it.
LEMMA WebKept ==
  ASSUME IInv, MapsOK', UNCHANGED <<h, mu, client, keystone, kube, synced>>,
         up' # "serving" => up # "serving",
         UNCHANGED <<pl, sc>> \/ (UNCHANGED pl /\ mu = None) \/ up # "serving"
  PROVE  IInv'
<1>1. UNCHANGED <<valid, roles, bindings>>
  BY Zenon DEF keystone, kube
<1>2. ASSUME NEW d \in Handlers PROVE FormOK(h'[d]) /\ ReviewOK(d)' /\ CopyOK(d)' /\ AccessOK(d)'
  <2>1. FormOK(h[d]) /\ ReviewOK(d) /\ CopyOK(d) /\ AccessOK(d)
    BY Zenon DEF IInv
  <2>2. ReviewOK(d)'
    BY <1>1, <2>1, Zenon DEF ReviewOK, At, Asking
  <2>3. CASE UNCHANGED <<pl, sc>>
    BY <1>1, <2>1, <2>2, <2>3, Zenon DEF CopyOK, AccessOK, At, Mine, Namespace
  <2>4. CASE UNCHANGED pl /\ mu = None
    BY <2>1, <2>2, <2>4, ConstantsAssumption, Zenon DEF CopyOK, AccessOK, At
  <2>5. CASE up # "serving"
    <3>1. h'[d].pc = "idle"
      BY <2>5, IdlesAt, Zenon DEF IInv
    <3>2. CopyOK(d)' /\ AccessOK(d)'
      BY <3>1, Zenon DEF CopyOK, AccessOK, At, Copying
    <3>3. QED
      BY <2>1, <2>2, <3>2, Zenon
  <2>6. QED
    BY <2>3, <2>4, <2>5, Zenon
<1>3. /\ KeystoneOK' /\ BindingsAsCopied' /\ (\A u \in Tokens : SyncedOK(u)')
      /\ synced' = [u \in Tokens |-> synced'[u]] /\ h' = [d \in Handlers |-> h'[d]]
  BY <1>1, Zenon DEF IInv, KeystoneOK, BindingsAsCopied, SyncedOK
<1>4. up' # "serving" => mu' = None /\ \A d \in Handlers : h'[d] = Idle
  BY Zenon DEF IInv
<1>5. QED
  BY <1>2, <1>3, <1>4, Zenon DEF IInv

\* The start, the informer and the worker, and edits of the maps.
LEMMA MapsKept == ASSUME IInv, Background \/ processItem \/ EditMap PROVE IInv'
<1>0. MapsOK
  BY Zenon DEF IInv
<1>1. CASE NewKeystoneAuth
  <2>1. /\ up = "down" /\ up' = "starting" /\ UNCHANGED <<maps, seen, queue, work, h, mu, client, keystone, kube, synced>>
        /\ pl' = IF PolicyFile = None THEN maps["policy"] ELSE PolicyFile
    BY <1>1, Zenon DEF NewKeystoneAuth
  <2>2. pl' \in Lists
    BY <1>0, <2>1, StartAssumption, Zenon DEF MapsOK, Maps, Lists, Decisions
  <2>3. MapsOK'
    BY <1>0, <2>1, <2>2, Zenon DEF MapsOK
  <2>4. QED
    BY <2>1, <2>3, WebKept, Zenon
<1>2. CASE Run
  <2>1. /\ up = "starting" /\ up' = "serving" /\ seen' = maps /\ queue' \subseteq Maps
        /\ UNCHANGED <<maps, work, pl, sc, h, mu, client, keystone, kube, synced>>
    BY <1>2, Zenon DEF Run
  <2>2. MapsOK'
    BY <1>0, <2>1, Zenon DEF MapsOK
  <2>3. QED
    BY <2>1, <2>2, WebKept, Zenon
<1>3. ASSUME NEW m \in Maps, enqueueConfigMap(m) PROVE IInv'
  <2>1. /\ seen' = [seen EXCEPT ![m] = maps[m]] /\ queue' = queue \cup {m}
        /\ UNCHANGED <<maps, work, up, pl, sc, h, mu, client, keystone, kube, synced>>
    BY <1>3, Zenon DEF enqueueConfigMap
  <2>2. /\ seen' = [n \in Maps |-> seen'[n]] /\ \A n \in Maps : seen'[n] = IF n = m THEN maps[m] ELSE seen[n]
    BY <1>0, <2>1, Zenon DEF MapsOK
  <2>3. MapsOK'
    BY <1>0, <2>1, <2>2, Zenon DEF MapsOK
  <2>4. QED
    BY <2>1, <2>3, WebKept, Zenon
<1>4. CASE processNextItem
  <2>1. UNCHANGED <<maps, seen, up, pl, sc, h, mu, client, keystone, kube, synced>>
    BY <1>4, Zenon DEF processNextItem
  <2>2. PICK m \in queue : work' = [key |-> m, got |-> seen[m]] /\ queue' = queue \ {m}
    BY <1>4, Zenon DEF processNextItem
  <2>3. work'.key = m /\ work'.got = seen[m]
    BY <2>2, SMT
  <2>4. MapsOK'
    BY <1>0, <2>1, <2>2, <2>3, Zenon DEF MapsOK
  <2>5. QED
    BY <2>1, <2>4, WebKept, Zenon
<1>5. CASE processItem
  <2>1. /\ work # None /\ work' = None /\ UNCHANGED <<maps, seen, queue, up, client, mu, keystone, kube, synced>>
        /\ IF work.key = "policy" THEN updatePolicies ELSE updateSyncConfig
    BY <1>5, Zenon DEF processItem
  <2>2. work.key \in Maps /\ work.got \in Versions(work.key)
    BY <1>0, <2>1, Zenon DEF MapsOK
  <2>3. CASE work.key = "policy"
    <3>1. pl' = work.got /\ pl' \in Lists
      BY <2>1, <2>2, <2>3, StartAssumption, Zenon DEF updatePolicies, Lists, Decisions
    <3>2. MapsOK'
      BY <1>0, <2>1, <3>1, Zenon DEF MapsOK
    <3>3. QED
      BY <2>1, <2>2, <2>3, <3>2, PoliciesKept, Zenon
  <2>4. CASE work.key # "policy"
    <3>1. mu = None /\ UNCHANGED <<pl, h>>
      BY <2>1, <2>4, Zenon DEF updateSyncConfig
    <3>2. MapsOK'
      BY <1>0, <2>1, <3>1, Zenon DEF MapsOK
    <3>3. QED
      BY <2>1, <3>1, <3>2, WebKept, Zenon
  <2>5. QED
    BY <2>3, <2>4, Zenon
<1>6. CASE EditMap
  <2>1. UNCHANGED <<seen, queue, work, up, pl, sc, h, mu, client, keystone, kube, synced>>
    BY <1>6, Zenon DEF EditMap
  <2>2. PICK m \in Maps : \E v \in Versions(m) : maps' = [maps EXCEPT ![m] = v]
    BY <1>6, Zenon DEF EditMap
  <2>3. PICK v \in Versions(m) : maps' = [maps EXCEPT ![m] = v]
    BY <2>2, Zenon
  <2>4. maps' = [n \in Maps |-> maps'[n]] /\ \A n \in Maps : maps'[n] = IF n = m THEN v ELSE maps[n]
    BY <1>0, <2>3, Zenon DEF MapsOK
  <2>5. MapsOK'
    BY <1>0, <2>1, <2>4, Zenon DEF MapsOK
  <2>6. QED
    BY <2>1, <2>5, WebKept, Zenon
<1>7. QED
  BY <1>1, <1>2, <1>3, <1>4, <1>5, <1>6, Zenon DEF Background

\* The process dies.
LEMMA CrashKept == ASSUME IInv, Crash PROVE IInv'
<1>1. /\ h' = [c \in Handlers |-> Idle] /\ mu' = None /\ queue' = {} /\ work' = None
      /\ UNCHANGED <<maps, seen, pl, valid, roles, bindings, synced>>
  BY Zenon DEF Crash, keystone, kube
<1>2. h' = [c \in Handlers |-> h'[c]] /\ \A c \in Handlers : h'[c] = Idle
  BY <1>1, Zenon
<1>3. AllFit'
  <2>1. \A c \in Handlers : h'[c].pc = "idle"
    BY <1>2, IdlesAt, Zenon
  <2>2. QED
    BY <2>1, Zenon DEF AllFit, FormOK, ReviewOK, CopyOK, AccessOK, At, Asking, Reviewing, Copying, Granted
<1>4. MapsOK' /\ KeystoneOK' /\ BindingsAsCopied' /\ (\A u \in Tokens : SyncedOK(u)') /\ synced' = [u \in Tokens |-> synced'[u]]
  BY <1>1, Zenon DEF IInv, MapsOK, KeystoneOK, BindingsAsCopied, SyncedOK
<1>5. QED
  BY <1>1, <1>2, <1>3, <1>4, Zenon DEF IInv, AllFit

\* A namespace is deleted, and what was copied there is forgotten.
LEMMA NamespaceKept == ASSUME IInv, DeleteNamespace PROVE IInv'
<1>1. UNCHANGED <<web, client, mu, h, keystone>> /\ UNCHANGED <<maps, seen, queue, work, up, pl, sc, valid, roles>>
  BY Zenon DEF DeleteNamespace, web, keystone
<1>2. PICK n \in namespaces :
        /\ bindings' = {b \in bindings : b[1] # n}
        /\ synced' = [t \in Tokens |-> IF synced[t] # None /\ synced[t].ns = n THEN None ELSE synced[t]]
  BY Zenon DEF DeleteNamespace
<1>3. \A t \in Tokens : synced'[t] = None \/ (synced'[t] = synced[t] /\ synced[t].ns # n)
  BY <1>2, Zenon
<1>4. \A m, u, r : m # n => (<<m, u, r>> \in bindings' <=> <<m, u, r>> \in bindings)
  BY <1>2, SMT
<1>5. BindingsAsCopied'
  <2>1. ASSUME NEW x \in Tokens, synced'[x] # None, synced'[x].done, synced'[x].ns # "shared"
        PROVE  {r \in Roles : <<synced'[x].ns, User(x), r>> \in bindings'} = synced'[x].roles
    <3>1. synced'[x] = synced[x] /\ synced[x].ns # n
      BY <1>3, <2>1, Zenon
    <3>2. {r \in Roles : <<synced[x].ns, User(x), r>> \in bindings} = synced[x].roles
      BY <2>1, <3>1, Zenon DEF IInv, BindingsAsCopied
    <3>3. \A r : <<synced[x].ns, User(x), r>> \in bindings' <=> <<synced[x].ns, User(x), r>> \in bindings
      BY <1>4, <3>1, Zenon
    <3>4. QED
      BY <3>1, <3>2, <3>3, Zenon
  <2>2. QED
    BY <2>1, Zenon DEF BindingsAsCopied
<1>6. ASSUME NEW d \in Handlers PROVE FormOK(h'[d]) /\ ReviewOK(d)' /\ CopyOK(d)' /\ AccessOK(d)'
  <2>1. FormOK(h[d]) /\ ReviewOK(d) /\ CopyOK(d) /\ AccessOK(d)
    BY Zenon DEF IInv
  <2>2. ReviewOK(d)'
    BY <1>1, <2>1, Zenon DEF ReviewOK, At, Asking
  <2>3. AccessOK(d)'
    BY <1>1, <2>1, Zenon DEF AccessOK, At
  <2>4. ASSUME h[d].pc \in Copying PROVE CopyOK(d)'
    <3> DEFINE t == h[d].tok
    <3>1. t \in Tokens /\ Namespace(d)' = Namespace(d)
      BY <1>1, <2>1, <2>4, Zenon DEF FormOK, Granted, Namespace
    <3>2. \A x \in Alike(t) \ {t} : synced'[x] = None
      BY <1>3, <2>1, <2>4, Zenon DEF CopyOK, Alike
    <3>3. ASSUME synced'[t] # None
          PROVE  /\ synced'[t].ns = Namespace(d) /\ synced'[t].roles = h[d].roles /\ ~synced'[t].done
                 /\ At(d, "bind") => Mine(d)' = (h[d].roles \cup h[d].drop) \ h[d].add
      <4>1. synced'[t] = synced[t] /\ synced[t].ns # n /\ synced[t] # None
        BY <1>3, <3>1, <3>3, Zenon
      <4>2. /\ synced[t].ns = Namespace(d) /\ synced[t].roles = h[d].roles /\ ~synced[t].done
            /\ At(d, "bind") => Mine(d) = (h[d].roles \cup h[d].drop) \ h[d].add
        BY <2>1, <2>4, <4>1, Zenon DEF CopyOK
      <4>3. \A r : <<Namespace(d), User(t), r>> \in bindings' <=> <<Namespace(d), User(t), r>> \in bindings
        BY <1>4, <4>1, <4>2, Zenon
      <4>4. Mine(d)' = Mine(d)
        BY <1>1, <3>1, <4>3, Zenon DEF Mine
      <4>5. QED
        BY <4>1, <4>2, <4>4, Zenon
    <3>4. mu' = d
      BY <1>1, <2>1, <2>4, Zenon DEF CopyOK
    <3>5. QED
      BY <1>1, <3>1, <3>2, <3>3, <3>4, Zenon DEF CopyOK, At
  <2>5. CopyOK(d)'
    BY <1>1, <2>4, Zenon DEF CopyOK
  <2>6. QED
    BY <1>1, <2>1, <2>2, <2>3, <2>5, Zenon
<1>7. \A t \in Tokens : SyncedOK(t)'
  BY <1>3, Zenon DEF IInv, SyncedOK
<1>8. MapsOK' /\ KeystoneOK'
  BY <1>1, Zenon DEF IInv, MapsOK, KeystoneOK
<1>9. /\ synced' = [t \in Tokens |-> synced'[t]] /\ h' = [d \in Handlers |-> h'[d]]
      /\ up' # "serving" => mu' = None /\ \A d \in Handlers : h'[d] = Idle
  BY <1>1, <1>2, Zenon DEF IInv
<1>10. QED
  BY <1>5, <1>6, <1>7, <1>8, <1>9, Zenon DEF IInv

-----------------------------------------------------------------------------
(* The theorems *)

\* The invariant holds at first.
LEMMA InitInv == ASSUME Init PROVE IInv
<1>1. /\ h = [c \in Handlers |-> Idle] /\ mu = None /\ synced = [t \in Tokens |-> None]
      /\ maps = Installed /\ seen = [m \in Maps |-> "missing"] /\ queue = {} /\ work = None /\ pl = "missing"
      /\ valid = Tokens /\ roles = Assigned
  BY Zenon DEF Init
<1>2. h = [c \in Handlers |-> h[c]] /\ \A c \in Handlers : h[c] = Idle
  BY <1>1, Zenon
<1>3. AllFit
  BY <1>2, IdleFit, Zenon
<1>4. synced = [t \in Tokens |-> synced[t]] /\ \A t \in Tokens : synced[t] = None
  BY <1>1, Zenon
<1>5. (\A t \in Tokens : SyncedOK(t)) /\ BindingsAsCopied
  BY <1>4, Zenon DEF SyncedOK, BindingsAsCopied
<1>6. KeystoneOK
  BY <1>1, StartAssumption, Zenon DEF KeystoneOK
<1>7. MapsOK
  <2>1. maps = [m \in Maps |-> maps[m]] /\ \A m \in Maps : maps[m] \in Versions(m)
    BY <1>1, StartAssumption, Zenon
  <2>2. seen = [m \in Maps |-> seen[m]] /\ \A m \in Maps : seen[m] \in Versions(m)
    BY <1>1, Zenon DEF Versions
  <2>3. pl \in Lists
    BY <1>1, StartAssumption, Zenon DEF Lists, Decisions, Versions
  <2>4. QED
    BY <1>1, <2>1, <2>2, <2>3, Zenon DEF MapsOK
<1>8. QED
  BY <1>1, <1>2, <1>3, <1>4, <1>5, <1>6, <1>7, Zenon DEF IInv, AllFit

\* Every step keeps the invariant.
LEMMA NextInv == ASSUME IInv, [Next]_vars PROVE IInv'
<1>1. CASE Background \/ processItem \/ EditMap
  BY <1>1, MapsKept, Zenon
<1>2. CASE Crash
  BY <1>2, CrashKept, Zenon
<1>3. ASSUME NEW c \in Handlers, Step(c) PROVE IInv'
  BY <1>3, ReviewKept, AccessKept, SyncDataKept, ProjectKept, ListKept, BindKept, CopyDone, Zenon DEF Step
<1>4. ASSUME NEW c \in Handlers, authorizeToken(c) PROVE IInv'
  BY <1>4, AccessKept, Zenon
<1>5. ASSUME NEW c \in Handlers, NEW t \in Tokens, TokenReview(c, t) PROVE IInv'
  BY <1>5, TokenReviewKept, Zenon
<1>6. CASE EditToken
  BY <1>6, EditTokenKept, Zenon
<1>7. CASE DeleteNamespace
  BY <1>7, NamespaceKept, Zenon
<1>8. CASE UNCHANGED vars
  <2>1. /\ UNCHANGED <<h, mu, client, keystone, kube, synced>>
        /\ UNCHANGED <<maps, seen, queue, work, up, pl, sc>>
    BY <1>8, Zenon DEF vars, web
  <2>2. MapsOK'
    BY <2>1, Zenon DEF IInv, MapsOK
  <2>3. QED
    BY <2>1, <2>2, WebKept, Zenon
<1>9. QED
  BY <1>1, <1>2, <1>3, <1>4, <1>5, <1>6, <1>7, <1>8, Zenon DEF Next

\* The invariant holds always.
LEMMA SpecInv == Spec => []IInv
<1>1. Init => IInv
  BY InitInv
<1>2. IInv /\ [Next]_vars => IInv'
  BY NextInv
<1>3. QED
  BY <1>1, <1>2, PTL DEF Spec

\* Each version of the list decides what it means.
LEMMA DecisionsAreMeant == Decisions = Meanings
<1>1. ASSUME NEW v \in Lists
      PROVE  {r \in DOMAIN Reviews : Authorize(List(v), Reviews[r].user, Reviews[r].a)}
               = {r \in DOMAIN Reviews : Meant(List(v), Reviews[r].user, Reviews[r].a, Names)}
  <2>1. \A p \in List(v) : WellFormed(p)
    BY PoliciesAssumption, Zenon DEF List
  <2>2. \A r \in DOMAIN Reviews : Authorize(List(v), Reviews[r].user, Reviews[r].a)
                                   <=> Meant(List(v), Reviews[r].user, Reviews[r].a, Names)
    BY <2>1, PoliciesAssumption, AuthorizeIsMeant, Zenon
  <2>3. QED
    BY <2>2, Zenon
<1>2. /\ Decisions = [v \in Lists |-> {r \in DOMAIN Reviews : Authorize(List(v), Reviews[r].user, Reviews[r].a)}]
      /\ Meanings = [v \in Lists |-> {r \in DOMAIN Reviews : Meant(List(v), Reviews[r].user, Reviews[r].a, Names)}]
  BY Zenon DEF Lists, Decisions, Meanings
<1>3. QED
  BY <1>1, <1>2, Zenon

\* Whatever policies, config maps and reviews there are: an access review
\* (authorizeToken, Authorize) is answered as the policies mean it, by one list that was
\* in force while it was in progress.
THEOREM DecidedAsMeant == Spec => []DecidedByPolicy
<1>1. IInv => DecidedByPolicy
  <2>1. SUFFICES ASSUME IInv, NEW c \in Handlers, At(c, "decided"), NEW r \in DOMAIN Reviews
                 PROVE  \E v \in h[c].lists : (r \in h[c].allowed) = (r \in Meanings[v])
    BY Zenon DEF DecidedByPolicy
  <2>2. PICK v \in h[c].lists : v \in Lists /\ h[c].allowed = Decisions[v]
    BY <2>1, Zenon DEF IInv, AccessOK
  <2>3. QED
    BY <2>2, DecisionsAreMeant, Zenon
<1>2. QED
  BY <1>1, SpecInv, PTL

\* Whatever the tokens and the number of reviews in progress: a token review
\* (AuthenticateToken) that is answered yes reports roles the token had meanwhile and the
\* groups of its own user, and one that is answered no is excused by an invalid token,
\* a fault or another review on the shared client.
THEOREM ReviewsAreValid == Spec => []ReviewedIsValid
<1>1. IInv => ReviewedIsValid
  BY Zenon DEF IInv, ReviewOK, ReviewedIsValid, At
<1>2. QED
  BY <1>1, SpecInv, PTL

\* Whatever the users, projects, roles and configurations: what syncData has copied for a
\* user to the project's namespace stays there until the next copy for that user and
\* project, through other reviews, failed calls, crashes and new configurations.
THEOREM CopiesStay == Spec => []BindingsAsCopied
<1>1. IInv => BindingsAsCopied
  BY Zenon DEF IInv
<1>2. QED
  BY <1>1, SpecInv, PTL
=============================================================================
