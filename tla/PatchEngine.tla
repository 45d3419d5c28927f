------------------------------ MODULE PatchEngine ------------------------------
(***************************************************************************)
(* resource/patch.go: PATCH requests, parsed and applied to the attributes  *)
(* of a resource, and the request the proxy makes of the operations         *)
(* (connector/scim/client.go, Patch).                                       *)
(***************************************************************************)
EXTENDS FilterLanguage

\* An operation of a request, before it is parsed.  path: None when it is
\* absent, empty or no text; value: Nil when it is absent.
RawOp(op, path, value) == [op |-> op, path |-> path, value |-> value]
NotAnObject == [op |-> "none", path |-> None, value |-> Nil]

PatchOp(op, path, value) == [op |-> op, path |-> path, value |-> value]

Done(attrs) == [attrs |-> attrs]
Err(e) == [err |-> e]
Fails(r) == "err" \in DOMAIN r

-----------------------------------------------------------------------------
(* Parsing.  The operation is rejected for an unknown op before its path is *)
(* looked at; one bad operation rejects the request.                        *)

AtPath(raw, path) ==
  IF path = BadPath THEN Err("badPatch") ELSE PatchOp(raw.op, path, raw.value)

parsePatchOp(raw) ==
  IF raw.op \notin {"add", "remove", "replace"} THEN Err("badPatch")
  ELSE AtPath(raw, IF raw.path = None THEN None ELSE PatchPathFrom(raw.path))

AllOrNone(ops) ==
  IF \E i \in DOMAIN ops : Fails(ops[i]) THEN Err("badPatch") ELSE [ops |-> ops]

\* ops: the value of "Operations", None when it is absent or no array.
ParsePatchRequest(ops) ==
  IF ops = None THEN Err("badPatch")
  ELSE AllOrNone([i \in DOMAIN ops.a |-> parsePatchOp(ops.a[i])])

\* The body the proxy sends for the operations.
patchBody(ops) ==
  Arr([i \in DOMAIN ops |->
         RawOp(ops[i].op, IF ops[i].path = None THEN None ELSE PatchPathToText(ops[i].path),
               ops[i].value)])

-----------------------------------------------------------------------------
(* Applying.                                                                *)

Matched(elem, filter) == IsMap(elem) /\ (filter = None \/ EvalFilter(filter, elem.m))

\* Mutant: the value takes the element's place.
\* An element written by add or replace.
Written(elem, sub, value) ==
  IF sub # "" THEN Map(setAttr(elem.m, sub, value))
  ELSE IF IsMap(value) THEN Map(Merged(elem.m, value.m))
  ELSE value

WriteElements(elems, filter, sub, value) ==
  [i \in DOMAIN elems |->
     IF Matched(elems[i], filter) THEN Written(elems[i], sub, value) ELSE elems[i]]

\* Mutant: the first element that matches.
RemoveOneElement(elems, filter, sub) ==
  LET hits == {i \in DOMAIN elems : Matched(elems[i], filter)}
  IN  IF hits = {} THEN elems
      ELSE IF sub = "" THEN RemoveAt(elems, Min(hits))
      ELSE [elems EXCEPT ![Min(hits)] = Map(deleteAttr(@.m, sub))]

RemoveElements(elems, filter, sub) ==
  IF sub = "" THEN Kept(elems, {i \in DOMAIN elems : ~ Matched(elems[i], filter)})
  ELSE [i \in DOMAIN elems |->
          IF Matched(elems[i], filter) THEN Map(deleteAttr(elems[i].m, sub)) ELSE elems[i]]

\* An attribute as an array: a single value is the array of it.
getMultiValued(val) == IF IsArr(val) THEN val.a ELSE <<val>>

\* A path with a sub-attribute and no filter in a PatchPath: only code that
\* builds PatchOps itself has one, PatchPathFrom puts attr.sub in attr.
WriteSub(existing, sub, value) ==
  IF IsArr(existing) THEN Arr(WriteElements(existing.a, None, sub, value))
  ELSE Map(setAttr(IF IsMap(existing) THEN existing.m ELSE <<>>, sub, value))

RemoveSub(existing, sub) ==
  IF IsArr(existing) THEN Arr(RemoveElements(existing.a, None, sub))
  ELSE IF IsMap(existing) THEN Map(deleteAttr(existing.m, sub))
  ELSE existing

\* Without a path, add and replace both merge the object they are given.
Merge(attrs, value) ==
  IF IsMap(value) THEN Done(Merged(attrs, value.m)) ELSE Err("badPatch")

applyAdd(attrs, p, value) ==
  LET existing == GetAttr(attrs, p.attr)
      Put(v) == Done(SetAttr(attrs, p.attr, v))
  IN  IF p.filter = None /\ p.sub = ""
      THEN Put(IF IsArr(existing) THEN Arr(existing.a \o getMultiValued(value)) ELSE value)
      ELSE IF p.filter = None THEN Put(WriteSub(existing, p.sub, value))
      ELSE IF existing = Nil THEN Err("noTarget")
      ELSE Put(Arr(WriteElements(getMultiValued(existing), p.filter, p.sub, value)))

applyRemove(attrs, p) ==
  LET existing == GetAttr(attrs, p.attr)
      Put(v) == Done(SetAttr(attrs, p.attr, v))
  IN  IF p.filter = None /\ p.sub = "" THEN Done(DeleteAttr(attrs, p.attr))
      ELSE IF existing = Nil THEN Done(attrs)
      ELSE IF p.filter = None THEN Put(RemoveSub(existing, p.sub))
      ELSE Put(Arr(RemoveElements(getMultiValued(existing), p.filter, p.sub)))

applyReplace(attrs, p, value) ==
  LET existing == GetAttr(attrs, p.attr)
      Put(v) == Done(SetAttr(attrs, p.attr, v))
  IN  IF p.filter = None /\ p.sub # "" THEN Put(WriteSub(existing, p.sub, value))
      ELSE IF p.filter = None \/ existing = Nil THEN Put(value)
      ELSE Put(Arr(WriteElements(getMultiValued(existing), p.filter, p.sub, value)))

applyOp(attrs, op) ==
  IF op.path = None
  THEN IF op.op = "remove" THEN Err("noTarget") ELSE Merge(attrs, op.value)
  ELSE CASE op.op = "add" -> applyAdd(attrs, op.path, op.value)
         [] op.op = "remove" -> applyRemove(attrs, op.path)
         [] op.op = "replace" -> applyReplace(attrs, op.path, op.value)

\* All operations, or none: the first that fails ends it.
AfterOp(r, op) == IF Fails(r) THEN r ELSE applyOp(r.attrs, op)

ApplyPatch(attrs, ops) ==
  LET result[n \in 0 .. Len(ops)] ==
        IF n = 0 THEN Done(attrs) ELSE AfterOp(result[n - 1], ops[n])
  IN  result[Len(ops)]

=============================================================================
