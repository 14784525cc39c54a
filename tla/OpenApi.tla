------------------------------- MODULE OpenApi -------------------------------
(***************************************************************************)
(* parse_spec_file (parsers/openapi_parser.py).  A document is [resolves,   *)
(* paths]: whether its references can be resolved ("full"), are left as    *)
(* they are ("raw") or it cannot be read ("none"), and its path items      *)
(* [path, shared, ops].  An operation is [method, id, params, body], a     *)
(* parameter [name, in, ref] and body the media types of requestBody, each *)
(* [ref, props]; ref says that it is written as a $ref.                    *)
(***************************************************************************)
EXTENDS Repository

SpecMethods == HttpMethods

Location == [path |-> "path", query |-> "query", header |-> "header", cookie |-> "query"]

\* An unresolved reference has neither a name nor properties.
Written(doc, x) == doc.resolves = "full" \/ ~x.ref

\* _extract_params: those of the path item, those of the operation, and the
\* properties of the first media type.
SpecParams(doc, item, op) ==
    LET listed == Filter(item.shared \o op.params, LAMBDA p : Written(doc, p))
        props  == IF op.body = <<>> \/ ~Written(doc, op.body[1]) THEN <<>> ELSE op.body[1].props
    IN  [i \in DOMAIN listed |-> Param(listed[i].name, Location[listed[i].in])]
        \o [i \in DOMAIN props |-> Param(props[i], "body")]

Lowered == [GET |-> "get", POST |-> "post", PUT |-> "put", PATCH |-> "patch", DELETE |-> "delete"]

\* operationId, or _path_to_name
SpecName(item, op) ==
    IF op.id # <<>> THEN op.id ELSE <<Lowered[op.method], "_">> \o PathWords(item.path, "_")

SpecRoutes(doc) ==
    IF doc.resolves = "none" THEN <<>>
    ELSE FlattenSeq([i \in DOMAIN doc.paths |->
           LET item == doc.paths[i]
               ops  == Filter(item.ops, LAMBDA op : op.method \in SpecMethods)
           IN  [j \in DOMAIN ops |->
                  Route(ops[j].method, item.path, SpecName(item, ops[j]),
                        SpecParams(doc, item, ops[j]), "openapi")]])
=============================================================================
