------------------------------- MODULE SchemaV1 -------------------------------
(***************************************************************************)
(* v1/converter.go: resources between SCIM 1.1 and 2.0.  A resource is the  *)
(* map of its attributes; a URI is a value, the key of the enterprise       *)
(* extension is Enterprise.  Resources keep what FromMap reads of them.     *)
(***************************************************************************)
EXTENDS Attributes

Uri(u) == [t |-> "uri", u |-> u]
Core1 == Uri("core1")
Enterprise1 == Uri("enterprise1")
User2 == Uri("user2")
Group2 == Uri("group2")
Enterprise2 == Uri("enterprise2")

Enterprise == "enterprise2"  \* the key of the extension

EnterpriseAttrs ==
  {"employeenumber", "costcenter", "organization", "division", "department", "manager"}

V2Uri(type) == IF type = "Group" THEN Group2 ELSE User2

Renamed(uris, from, to) == [i \in DOMAIN uris |-> IF uris[i] = from THEN to ELSE uris[i]]

\* uris after first: without those in dropped, each once.
Remapped(first, uris, dropped) ==
  <<first>> \o Kept(uris, {i \in DOMAIN uris : /\ uris[i] \notin dropped \cup {first}
                                                /\ \A j \in 1 .. i - 1 : uris[j] # uris[i]})

\* No array, no URIs.
Uris(v) == IF IsArr(v) THEN Kept(v.a, {i \in DOMAIN v.a : v.a[i].t = "uri"}) ELSE <<>>

remapSchemasToV2(v, type) ==
  Arr(Remapped(V2Uri(type), Renamed(Uris(v), Enterprise1, Enterprise2), {Core1}))

remapSchemasToV1(v) ==
  Arr(Remapped(Core1, Renamed(Uris(v), Enterprise2, Enterprise1), {User2, Group2}))

WithSchemas(m, v) == IF "schemas" \in DOMAIN m THEN setAttr(m, "schemas", v) ELSE m

\* m with the value of its attribute name changed, if it has one.
Adapt(m, name, f(_)) == IF name \in DOMAIN m THEN [m EXCEPT ![name] = f(@)] ELSE m

\* An object with its field from renamed to; what to had is lost.
Rename(v, from, to) ==
  IF IsMap(v) /\ from \in DOMAIN v.m
  THEN Map(setAttr(deleteAttr(v.m, from), to, v.m[from])) ELSE v

\* Mutant: manager stays where it is.
PromoteButManager(m) ==
  LET found == (EnterpriseAttrs \ {"manager"}) \cap DOMAIN m
  IN  IF found = {} THEN m
      ELSE setAttr(Restrict(m, DOMAIN m \ found), Enterprise, Map(Restrict(m, found)))

\* Top-level enterprise attributes become the extension; one that is there is
\* overwritten.
promoteEnterpriseExtension(m) ==
  LET found == EnterpriseAttrs \cap DOMAIN m
  IN  IF found = {} THEN m
      ELSE setAttr(Restrict(m, DOMAIN m \ found), Enterprise, Map(Restrict(m, found)))

flattenEnterpriseExtension(m) ==
  LET ext == lookupAttr(m, Enterprise)
  IN  IF IsMap(ext) THEN Merged(deleteAttr(m, Enterprise), ext.m) ELSE m

fixManagerField(m) ==
  Adapt(m, Enterprise,
        LAMBDA ext : IF IsMap(ext)
                     THEN Map(Adapt(ext.m, "manager", LAMBDA v : Rename(v, "managerid", "value")))
                     ELSE ext)

fixManagerFieldToV1(m) == Adapt(m, "manager", LAMBDA v : Rename(v, "value", "managerid"))

fixGroupsMembership(m) ==
  Adapt(m, "groups",
        LAMBDA v : IF IsArr(v) THEN Arr([i \in DOMAIN v.a |-> Rename(v.a[i], "id", "value")]) ELSE v)

ToV2(m, type) ==
  LET schemas == IF "schemas" \in DOMAIN m THEN remapSchemasToV2(m["schemas"], type) ELSE Nil
  IN  fixGroupsMembership(fixManagerField(promoteEnterpriseExtension(WithSchemas(m, schemas))))

FromV2(m) ==
  LET schemas == IF "schemas" \in DOMAIN m THEN remapSchemasToV1(m["schemas"]) ELSE Nil
  IN  fixManagerFieldToV1(flattenEnterpriseExtension(WithSchemas(m, schemas)))

=============================================================================
