----------------------------- MODULE MCToolCalls -----------------------------
(* A file tool with two required arguments and an optional one, a command  *)
(* that asks and has a deadline, and a slow synchronous one; names the     *)
(* model writes in another harness's way or makes up.                      *)
EXTENDS ToolCalls, TLC

MCTool == {"write", "run", "scan"}
MCMeans == [n \in {"functions.write", "delete"} |-> IF n = "delete" THEN None ELSE "write"]
MCAccepts == [t \in MCTool |-> IF t = "write" THEN {"path", "text", "mode"} ELSE {"text"}]
MCRequired == [t \in MCTool |-> IF t = "write" THEN {"path", "text"} ELSE {"text"}]
MCDeadline ==
  [t \in MCTool |-> CASE t = "write" -> "none" [] t = "run" -> "task" [] t = "scan" -> "thread"]

Value(w, t, f) == [word |-> w, tail |-> t, form |-> f]
Write(n, w, t, f) ==
  [name |-> n, args |-> ("path" :> Value("p", None, "typed") @@ "text" :> Value(w, t, f))]
Command(n, w) == [name |-> n, args |-> ("text" :> Value(w, None, "typed"))]
MCAnswers ==
  { <<Write("write", "a", "path", "typed"), Command("run", "b")>>,
    <<Write("write", "a", None, "coercible"), Write("functions.write", "b", None, "typed")>>,
    <<Command("scan", "c"), Write("write", "d", "mode", "typed")>>,
    <<Command("run", "e"), Command("run", "f")>>,
    <<Command("delete", "g"), Write("write", "h", None, "wrong")>>,
    <<Write("write", "i", "text", "typed"), Write("write", "j", None, "typed"), Command("run", "k")>> }

Shape(x, i, e) == [index |-> x, ids |-> i, echo |-> e]
(* Fragments that say which call they belong to: by their index, by being  *)
(* next to their opening, or by repeating the id.                          *)
MCShapes ==
  {Shape("given", i, e) : i \in BOOLEAN, e \in BOOLEAN}
    \cup {Shape("omitted", TRUE, e) : e \in BOOLEAN} \cup {Shape("same", TRUE, TRUE)}
=============================================================================
