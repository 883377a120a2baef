---------------------------- MODULE Permissions ----------------------------
(***************************************************************************)
(* The permission grammar and the checks against parsed grants             *)
(* (src/kernel/permissions.rs).                                            *)
(*                                                                         *)
(* An entry of a manifest is the sequence of its ':'-separated segments,   *)
(* each the sequence of its atoms: split at '.' in a name or a host, at    *)
(* '/' in a blob path (a path holds no ':' here).  "" is the empty atom    *)
(* and Globby holds the atoms with a glob character, "*" among them; hosts *)
(* are compared in lower case, so an atom is its lower-case form.          *)
(***************************************************************************)
EXTENDS Identity

LOCAL INSTANCE Functions

CONSTANTS
  Globby,          \* atoms holding '*', '?' or '['
  AppCategories    \* the embedder's categories: name -> the values its validator accepts

BlobOps == {"read", "write", "delete", "list", "stat", "watch"}

Refused == [category |-> "refused"]
IsRefused(p) == p.category = "refused"

(* splitn(2, ':'): what stands before the first colon and after it.        *)
Before(entry) == IF entry = <<>> THEN <<"">> ELSE Head(entry)
After(entry) == IF entry = <<>> THEN <<>> ELSE Tail(entry)
Blank(entry) == entry = <<>> \/ entry = <<<<"">>>>

NoGlob(segment) == \A i \in DOMAIN segment : segment[i] \notin Globby

AnyOne == [pattern |-> "any", of |-> <<>>]
Exact(segment) == [pattern |-> "exact", of |-> segment]

(* "*", "*.suffix" or a host; a port has no syntax.                        *)
ParseHostPattern(entry) ==
  LET host == entry[1]
      suffix == Tail(host)
  IN IF entry = <<<<"*">>>> THEN AnyOne
     ELSE IF Len(entry) > 1 THEN Refused
     ELSE IF host[1] = "*" /\ Len(host) > 1
     THEN IF suffix # <<"">> /\ NoGlob(suffix)
          THEN [pattern |-> "suffix", of |-> suffix] ELSE Refused
     ELSE IF NoGlob(host) THEN Exact(host) ELSE Refused

(* "*", "prefix/*" or a path.                                              *)
ParsePathPattern(entry) ==
  LET path == entry[1]
      prefix == SubSeq(path, 1, Len(path) - 1)
  IN IF entry = <<<<"*">>>> THEN AnyOne
     ELSE IF Len(path) > 1 /\ path[Len(path)] = "*"
     THEN IF NoGlob(prefix) THEN [pattern |-> "prefix", of |-> prefix] ELSE Refused
     ELSE IF NoGlob(path) THEN Exact(path) ELSE Refused

ParseNetwork(rest) ==
  IF Before(rest) # <<"egress">> \/ Blank(After(rest)) THEN Refused
  ELSE LET host == ParseHostPattern(After(rest))
       IN IF host = Refused THEN Refused ELSE [category |-> "network", host |-> host]

ParseBlobs(rest) ==
  IF (\A op \in BlobOps : Before(rest) # <<op>>) \/ Blank(After(rest)) THEN Refused
  ELSE LET path == ParsePathPattern(After(rest))
       IN IF path = Refused THEN Refused
          ELSE [category |-> "blobs", op |-> Before(rest)[1], path |-> path]

ParseStepType(rest) ==
  IF ~Blank(rest) /\ Len(rest) = 1 /\ NoGlob(rest[1]) /\ ValidStepTypeReference(rest[1])
  THEN [category |-> "step_type", type |-> rest[1]] ELSE Refused

(* A claim names a step type and, after a further colon, its selector.     *)
ParseProvide(rest) ==
  LET target == After(rest)
      selector == After(target)
  IN IF /\ Before(rest) = <<"step_type">>
        /\ ~Blank(target)
        /\ NoGlob(target[1]) /\ ValidStepTypeReference(target[1])
        /\ \/ selector = <<>>
           \/ /\ Len(selector) = 1 /\ Len(selector[1]) = 1
              /\ NoGlob(selector[1])
              /\ ValidName("selector", selector[1][1])
     THEN [category |-> "provide", type |-> target[1],
           selector |-> IF selector = <<>> THEN <<>> ELSE selector[1]]
     ELSE Refused

ParseBind(rest) ==
  LET target == After(rest)
  IN IF /\ Before(rest) = <<"native_impl">>
        /\ ~Blank(target) /\ Len(target) = 1
        /\ NoGlob(target[1]) /\ ValidImplRef(target[1])
     THEN [category |-> "bind", ref |-> target[1]] ELSE Refused

ParseInvoke(rest) ==
  LET kind == Before(rest)
      target == After(rest)
      named == /\ Len(target) = 1 /\ Len(target[1]) = 1
               /\ NoGlob(target[1]) /\ ValidName(kind[1], target[1][1])
  IN IF Blank(target) \/ kind \notin {<<"plugin">>, <<"role">>} THEN Refused
     ELSE IF target = <<<<"*">>>> THEN [category |-> "invoke", kind |-> kind[1], name |-> AnyOne]
     ELSE IF named THEN [category |-> "invoke", kind |-> kind[1], name |-> Exact(target[1])]
     ELSE Refused

(* A category without a dot belongs to the kernel, known or not.           *)
ParseApp(category, rest) ==
  IF Len(category) > 1 /\ ~Blank(rest)
  THEN [category |-> "app", kind |-> category, value |-> rest] ELSE Refused

ParsePermission(entry) ==
  LET rest == After(entry)
  IN CASE Before(entry) = <<"network">> -> ParseNetwork(rest)
       [] Before(entry) = <<"blobs">> -> ParseBlobs(rest)
       [] Before(entry) = <<"step_type">> -> ParseStepType(rest)
       [] Before(entry) = <<"provide">> -> ParseProvide(rest)
       [] Before(entry) = <<"bind">> -> ParseBind(rest)
       [] Before(entry) = <<"invoke">> -> ParseInvoke(rest)
       [] OTHER -> ParseApp(Before(entry), rest)

(* An embedder category must be declared to the kernel, and its value      *)
(* must pass the category's validator.                                     *)
KnownCategory(p) ==
  p.category = "app" => p.kind \in DOMAIN AppCategories /\ p.value \in AppCategories[p.kind]

ParseManifestPermissions(entries) ==
  [i \in DOMAIN entries |-> ParsePermission(entries[i])]

PermissionsAccepted(entries) ==
  \A i \in DOMAIN entries :
    LET p == ParsePermission(entries[i]) IN ~IsRefused(p) /\ KnownCategory(p)

StartsWith(seq, prefix) == Len(prefix) <= Len(seq) /\ SubSeq(seq, 1, Len(prefix)) = prefix
EndsWith(seq, suffix) ==
  Len(suffix) <= Len(seq) /\ SubSeq(seq, Len(seq) - Len(suffix) + 1, Len(seq)) = suffix

NameMatches(pattern, name) == pattern = AnyOne \/ pattern = Exact(<<name>>)

HostMatches(pattern, host) ==
  \/ pattern = AnyOne
  \/ pattern.pattern = "exact" /\ pattern.of = host
  \/ pattern.pattern = "suffix" /\ EndsWith(host, pattern.of)

PathMatches(pattern, key) ==
  \/ pattern = AnyOne
  \/ pattern.pattern = "exact" /\ pattern.of = key
  \/ pattern.pattern = "prefix" /\ StartsWith(key, pattern.of)

Grants(grants, category) == {g \in Range(grants) : g.category = category}

CheckNetworkEgress(grants, host) ==
  \E g \in Grants(grants, "network") : HostMatches(g.host, host)

CheckBlobs(grants, op, key) ==
  \E g \in Grants(grants, "blobs") : g.op = op /\ PathMatches(g.path, key)

CheckInvokeRole(grants, role) ==
  \E g \in Grants(grants, "invoke") : g.kind = "role" /\ NameMatches(g.name, role)

CheckStepType(grants, stepType) ==
  \E g \in Grants(grants, "step_type") : g.type = stepType

(* The category names an embedder may declare at boot.                     *)
ValidAppCategoryName(category) ==
  Len(category) > 1 /\ \A i \in DOMAIN category : ValidName("category segment", category[i])

ASSUME CategoriesAssumption == \A c \in DOMAIN AppCategories : ValidAppCategoryName(c)

=============================================================================
