---------------------------- MODULE MCServerTasks ----------------------------
(***************************************************************************)
(* Instances of ServerTasks for TLC: the requests of the runs.             *)
(***************************************************************************)
EXTENDS ServerTasks, TLC

Ask(type, prompts, stream, slot, bad) ==
    [type |-> type, prompts |-> prompts, stream |-> stream, slot |-> slot, bad |-> bad]

OnePrompt   == Ask("completion", 1, TRUE, None, FALSE)
TwoPrompts  == Ask("completion", 2, FALSE, None, FALSE)
FirstSlot   == Ask("completion", 1, FALSE, 0, FALSE)
BadGrammar  == Ask("completion", 1, FALSE, None, TRUE)
Embedding   == Ask("embedding", 1, FALSE, None, FALSE)
Rerank      == Ask("rerank", 1, FALSE, None, FALSE)
Metrics     == Ask("metrics", 1, FALSE, None, FALSE)
EraseFirst  == Ask("action", 1, FALSE, 0, FALSE)

AnyRequest  == {TwoPrompts, BadGrammar, Rerank, EraseFirst}
GoodRequest == {OnePrompt, TwoPrompts, Metrics}
Stranding   == {OnePrompt, BadGrammar, EraseFirst}

Symmetry == Permutations(Client)
=============================================================================
