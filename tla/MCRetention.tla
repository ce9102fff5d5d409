---------------------------- MODULE MCRetention ----------------------------
(***************************************************************************)
(* TLC instance of Retention: one store of each kind.  The sessions of     *)
(* Codex and OpenCode have a subagent session, listed or spawned later.    *)
(***************************************************************************)
EXTENDS Retention, TLC

CONSTANTS main, sub

Alone  == [s \in Session |-> NoSession]
Nested == [s \in Session |-> IF s = sub THEN main ELSE NoSession]

Store(kind, parent, live, recorded) ==
    [kind |-> kind, parent |-> parent, live |-> live, recorded |-> recorded]

MCStores ==
    {Store(k, Alone, {main}, r) : k \in {"file", "mcode", "copilot", "bundle"}, r \in {{}, {main}}}
        \union {Store(k, Nested, l, {}) : k \in {"codex", "opencode"}, l \in {{main}, {main, sub}}}

Symmetry == Permutations(Proc)
=============================================================================
