------------------------------ MODULE CacheKeys ------------------------------
(***************************************************************************)
(* How a request becomes a cache key: the context of                       *)
(* AsyncCache._build_context(), the combinators of key_utils.py and the    *)
(* key functions the package builds from them.                             *)
(*                                                                         *)
(* A request is one call of a function on behalf of one task; its id is    *)
(* the composite entry id generate_entry_id() makes of both.  "args"       *)
(* stands for the positional and the keyword arguments together.  A key is *)
(* the tuple of the parts that compose_key_functions() joins; the digest   *)
(* of default_key_fn() is taken to be free of collisions.                  *)
(***************************************************************************)
CONSTANTS
    Requests,       \* the requests, and their entry ids
    NoEntry,        \* entry_id is None
    FunctionOf,     \* FunctionOf[r]: the name of the function r calls
    ArgsOf,         \* ArgsOf[r]: the arguments r calls it with
    Unencodable,    \* the arguments that MsgPackSerializer cannot encode
    Uuids           \* what uuid4() may return

CallOf(r) == <<FunctionOf[r], ArgsOf[r]>>

\* _build_context(): entry_id is a field only if there is one.
BuildContext(r, entry) ==
    [f \in {"fn_name", "args"} \union (IF entry = NoEntry THEN {} ELSE {"entry_id"}) |->
        CASE f = "fn_name"  -> FunctionOf[r]
          [] f = "args"     -> ArgsOf[r]
          [] f = "entry_id" -> entry]

\* extract_key_component()
Extract(context, field) ==
    IF field \in DOMAIN context THEN context[field] ELSE "none"

\* Seeded fault: the arguments alone.
DefaultKey_NoFunction(context, uuid) == <<"md5", context["args"]>>

\* AsyncCache.default_key_fn(): a digest of the call, or for arguments that
\* cannot be encoded a key "that won't match anything else".
DefaultKey(context, uuid) ==
    IF context["args"] \in Unencodable
    THEN <<"error", context["fn_name"], uuid>>
    ELSE <<"md5", context["fn_name"], context["args"]>>

\* The key function AsyncTaskWorker.add_task() attaches to a task.
NormalKey(context) == <<Extract(context, "func_name"), Extract(context, "args")>>

\* AsyncCacheAdapter._default_key_fn
TaskKey(context) ==
    << Extract(context, "fn_name"),
       IF "entry_id" \in DOMAIN context THEN context["entry_id"] ELSE "no_task_id" >>

\* The key of a context under the key function in use.  A custom one that
\* raises is replaced by the default, and so is like it.
KeyBy(keyFn, context, uuid) ==
    CASE keyFn = "default" -> DefaultKey(context, uuid)
      [] keyFn = "normal"  -> NormalKey(context)
      [] keyFn = "task"    -> TaskKey(context)
=============================================================================
