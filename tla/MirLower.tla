------------------------------ MODULE MirLower ------------------------------
(***************************************************************************)
(* Lowering one function body to MIR (razen_mir/src/lower.rs).             *)
(*                                                                         *)
(* The recursive descent of `lower_expr` and `lower_stmt` is a stack       *)
(* machine.  The agenda holds, first things first, the syntax nodes still  *)
(* to lower and the rest of every call in progress; a step takes the head  *)
(* and puts what it calls, and what remains of it afterwards, in its       *)
(* place.  The syntax tree is chosen while it is lowered: a node gets its  *)
(* kind when lowering first reads it, so that the behaviours range over    *)
(* all programs of at most MaxNodes nodes.                                 *)
(*                                                                         *)
(* Only control is kept.  An expression that does nothing but evaluate its *)
(* operands in order (literals, names, operators, tuples, collections,     *)
(* struct literals, fields, casts, `?`, assignments, closures, fork        *)
(* blocks) is an "operands" node, and so is a statement that evaluates     *)
(* and binds (let, mut, const, shared, assignment, nested item).           *)
(***************************************************************************)
EXTENDS MirFn, FiniteSets

CONSTANTS
    MaxNodes,     \* bound on the syntax nodes of the function
    MaxOperands,  \* bound on the operands, arguments and statements of a node
    ArmLists,     \* the match arm lists to choose from
    Patterns,     \* the refutable patterns of `if let` to choose from
    Constructs,   \* the kinds of node a program is made of
    Features      \* and what else it may contain: see VisitLoop and Allowed

FeatureNames == {"label", "stray", "fork_break", "iterable", "loop_else"}

\* A pattern that fixes the discriminant of what it matches and that
\* `pattern_discriminant` knows ("lit": integer, bool, some/ok = 1, none/err = 0),
\* one that it does not know ("unit": an enum variant), or one that matches
\* everything ("wild": `_` or a name).  Plain conditions are "cond".
PatternSet == [k : {"lit", "unit", "wild", "cond"}, d : Nat]
ArmSet == [pat : PatternSet, guard : BOOLEAN]

VARIABLES
    ast,         \* the part of the syntax tree read so far: node id -> node
    agenda,      \* what is left to do, head first
    fb,          \* the FnBuilder's function, current block and flag
    loop_stack   \* LoopCtx of the enclosing loops, innermost last

vars == <<ast, agenda, fb, loop_stack>>

-----------------------------------------------------------------------------
(* Syntax                                                                  *)

TestedLoops == {"while", "let", "in"}
LoopKinds == TestedLoops \cup {"infinite"}
NodeKinds == LoopKinds \cup
    {"operands", "call", "block", "fn", "if", "match", "break", "next",
     "ret", "forkloop", "defer", "guard"}

ASSUME ConstantsAssumption ==
    /\ MaxNodes \in Nat \ {0}
    /\ MaxOperands \in Nat
    /\ ArmLists \subseteq Seq(ArmSet)
    /\ Patterns \subseteq PatternSet
    /\ Constructs \subseteq NodeKinds
    /\ Features \subseteq FeatureNames

\* `flag`: a block has a tail, an `if` or a loop an else part.
\* `label`: the loop a labelled break or next names, 0 without a label.
Node(k, kids, flag) ==
    [k |-> k, kids |-> kids, flag |-> flag, label |-> 0, arms |-> <<>>,
     pat |-> [k |-> "cond", d |-> 1]]
NodeSet == [k : NodeKinds, kids : Seq(Nat), flag : BOOLEAN, label : Nat,
            arms : Seq(ArmSet), pat : PatternSet]

Leaf == Node("operands", <<>>, FALSE)
NewKids(n) == [i \in 1..n |-> Len(ast) + i]

\* What the children of a node are taken for until they are read.  The else
\* block of a loop is never read by the lowering: it is a call.
Unread(node, i) ==
    IF node.k \in TestedLoops /\ i = 3 THEN Node("call", <<>>, FALSE) ELSE Leaf

\* Node e is found to be `node`; its children are there, not read yet.
Read(e, node) ==
    /\ node.k \in Constructs
    /\ Len(ast) + Len(node.kids) <= MaxNodes
    /\ ast' = [ast EXCEPT ![e] = node]
                \o [i \in 1..Len(node.kids) |-> Unread(node, i)]

-----------------------------------------------------------------------------
(* Agenda                                                                  *)

Ops == {"expr", "stmt", "call_end", "stmts", "fn_stmts", "fn_end",
        "if_branch", "if_then", "if_else", "match_switch", "match_arm",
        "loop_test", "loop_end", "break_end", "ret_end",
        "fork_head", "fork_end", "guard_test", "guard_end"}

(***************************************************************************)
(* A frame: a call in progress on node e, the node once it is read, the    *)
(* blocks the call has allocated and will switch to later, in that order,  *)
(* the header of its loop, and the place it has come to in a list.         *)
(***************************************************************************)
FrameSet == [op : Ops, e : Nat, node : NodeSet, owes : Seq(Block),
             hdr : Nat, at : Nat]
Frame(op, e, node, owes, hdr, at) ==
    [op |-> op, e |-> e, node |-> node, owes |-> owes, hdr |-> hdr, at |-> at]
Then(op, e, node) == Frame(op, e, node, <<>>, 0, 1)
LowerExpr(e) == Then("expr", e, Leaf)
LowerStmt(e) == Then("stmt", e, Leaf)
LowerAll(es) == [i \in 1..Len(es) |-> LowerExpr(es[i])]

Top == Head(agenda)
Kid(i) == Top.node.kids[i]
Running(op) == agenda # <<>> /\ Top.op = op
Do(frames)  == agenda' = frames \o Tail(agenda)

\* The rest of the call at the head, with the blocks it owes from now on, and
\* the same at the next place of its list.
Rest(op, owes) == Frame(op, Top.e, Top.node, owes, Top.hdr, Top.at)
Onward(owes)   == Frame(Top.op, Top.e, Top.node, owes, Top.hdr, Top.at + 1)

\* A node is read: `lower_stmt` returns at once in a terminated block.
Reading == \/ Running("expr")
           \/ Running("stmt") /\ ~fb.terminated

\* Where in the agenda the loop bodies around the current point end, those of
\* fork loops included.
LoopEnds == {i \in DOMAIN agenda : agenda[i].op \in {"loop_end", "fork_end"}}

-----------------------------------------------------------------------------
(* Expressions without control flow of their own, calls, blocks            *)

VisitOperands ==
    \E n \in 0..MaxOperands :
        /\ Reading
        /\ Read(Top.e, Node("operands", NewKids(n), FALSE))
        /\ Do(LowerAll(NewKids(n)))
        /\ UNCHANGED <<fb, loop_stack>>

\* Call, method call and await: the first child is the callee or receiver.
VisitCall ==
    \E n \in 1..MaxOperands :
        /\ Reading
        /\ Read(Top.e, Node("call", NewKids(n), FALSE))
        /\ Do(Append(LowerAll(NewKids(n)), Then("call_end", Top.e, Leaf)))
        /\ UNCHANGED <<fb, loop_stack>>

CallEnd ==
    /\ Running("call_end")
    /\ LET cont == NextBlock(fb)
       IN fb' = SwitchTo(Terminate(NewBlocks(fb, 1), Call(Top.e, cont)), cont)
    /\ Do(<<>>)
    /\ UNCHANGED <<ast, loop_stack>>

VisitBlock ==
    \E n \in 0..MaxOperands, tail \in BOOLEAN :
        /\ Reading
        /\ LET node == Node("block", NewKids(n + IF tail THEN 1 ELSE 0), tail)
           IN Read(Top.e, node) /\ Do(<<Then("stmts", Top.e, node)>>)
        /\ UNCHANGED <<fb, loop_stack>>

StmtCount == Len(Top.node.kids) - IF Top.node.flag THEN 1 ELSE 0
TailExpr == Kid(Len(Top.node.kids))

\* The statement loop stops after a statement that terminated the block.
MoreStmts == Top.at <= StmtCount /\ (Top.at = 1 \/ ~fb.terminated)

NextStmt ==
    /\ Running("stmts") \/ Running("fn_stmts")
    /\ MoreStmts
    /\ Do(<<LowerStmt(Kid(Top.at)), Onward(<<>>)>>)
    /\ UNCHANGED <<ast, fb, loop_stack>>

\* The tail of a block expression is lowered even in a terminated block.
BlockTail ==
    /\ Running("stmts")
    /\ ~MoreStmts
    /\ Do(IF Top.node.flag THEN <<LowerExpr(TailExpr)>> ELSE <<>>)
    /\ UNCHANGED <<ast, fb, loop_stack>>

SkipStmt ==
    /\ Running("stmt")
    /\ fb.terminated
    /\ Do(<<>>)
    /\ UNCHANGED <<ast, fb, loop_stack>>

\* The body of the function: `lower_fn` after its statements.
FnTail ==
    /\ Running("fn_stmts")
    /\ ~MoreStmts
    /\ IF Top.node.flag /\ ~fb.terminated
       THEN /\ Do(<<LowerExpr(TailExpr), Then("fn_end", Top.e, Leaf)>>)
            /\ UNCHANGED fb
       ELSE /\ fb' = Terminate(fb, Return)
            /\ Do(<<>>)
    /\ UNCHANGED <<ast, loop_stack>>

\* Slip: the value of the tail is computed and never returned.
FnEndOpen ==
    /\ Running("fn_end")
    /\ Do(<<>>)
    /\ UNCHANGED <<ast, fb, loop_stack>>

FnEnd ==
    /\ Running("fn_end")
    /\ fb' = Terminate(fb, Return)
    /\ Do(<<>>)
    /\ UNCHANGED <<ast, loop_stack>>

-----------------------------------------------------------------------------
(* if, if let, guard, match                                                *)

VisitIf ==
    \E else \in BOOLEAN, pat \in Patterns \cup {Leaf.pat} :
        /\ Reading
        /\ LET node == [Node("if", NewKids(IF else THEN 3 ELSE 2), else)
                          EXCEPT !.pat = pat]
           IN /\ Read(Top.e, node)
              /\ Do(<<LowerExpr(node.kids[1]), Then("if_branch", Top.e, node)>>)
        /\ UNCHANGED <<fb, loop_stack>>

\* `if let` branches on the discriminant of the value, whatever the pattern.
IfBranch ==
    /\ Running("if_branch")
    /\ LET then_bb == NextBlock(fb)
           else_bb == then_bb + 1
           join_bb == then_bb + 2
       IN /\ fb' = SwitchTo(Terminate(NewBlocks(fb, 3),
                                      Branch(Top.e, then_bb, else_bb)), then_bb)
          /\ Do(<<LowerExpr(Kid(2)), Rest("if_then", <<else_bb, join_bb>>)>>)
    /\ UNCHANGED <<ast, loop_stack>>

IfThen ==
    /\ Running("if_then")
    /\ LET else_bb == Top.owes[1]
           join_bb == Top.owes[2]
           at_else == SwitchTo(Terminate(fb, Goto(join_bb)), else_bb)
       IN IF Top.node.flag
          THEN /\ fb' = at_else
               /\ Do(<<LowerExpr(Kid(3)), Rest("if_else", <<join_bb>>)>>)
          ELSE /\ fb' = SwitchTo(Terminate(at_else, Goto(join_bb)), join_bb)
               /\ Do(<<>>)
    /\ UNCHANGED <<ast, loop_stack>>

\* Slip: the join block is entered without a goto from the branch that ends.
JoinOpen(op) ==
    /\ Running(op)
    /\ fb' = SwitchTo(fb, Top.owes[1])
    /\ Do(<<>>)
    /\ UNCHANGED <<ast, loop_stack>>

\* The end of the else part of `if` and of the else body of `guard`.
Join(op) ==
    /\ Running(op)
    /\ LET join_bb == Top.owes[1]
       IN fb' = SwitchTo(Terminate(fb, Goto(join_bb)), join_bb)
    /\ Do(<<>>)
    /\ UNCHANGED <<ast, loop_stack>>

IfElse   == Join("if_else")
GuardEnd == Join("guard_end")

VisitGuard ==
    /\ Running("stmt") /\ ~fb.terminated
    /\ LET node == Node("guard", NewKids(2), FALSE)
       IN /\ Read(Top.e, node)
          /\ Do(<<LowerExpr(node.kids[1]), Then("guard_test", Top.e, node)>>)
    /\ UNCHANGED <<fb, loop_stack>>

\* Slip: the block after the guard is named but not allocated.
GuardTestOneBlock ==
    /\ Running("guard_test")
    /\ LET else_bb == NextBlock(fb)
       IN /\ fb' = SwitchTo(Terminate(NewBlocks(fb, 1),
                                Branch(Top.e, else_bb + 1, else_bb)), else_bb)
          /\ Do(<<LowerExpr(Kid(2)), Rest("guard_end", <<else_bb + 1>>)>>)
    /\ UNCHANGED <<ast, loop_stack>>

GuardTest ==
    /\ Running("guard_test")
    /\ LET else_bb == NextBlock(fb)
           cont_bb == else_bb + 1
       IN /\ fb' = SwitchTo(Terminate(NewBlocks(fb, 2),
                                      Branch(Top.e, cont_bb, else_bb)), else_bb)
          /\ Do(<<LowerExpr(Kid(2)), Rest("guard_end", <<cont_bb>>)>>)
    /\ UNCHANGED <<ast, loop_stack>>

\* `defer` is lowered where it stands.
VisitDefer ==
    /\ Running("stmt") /\ ~fb.terminated
    /\ Read(Top.e, Node("defer", NewKids(1), FALSE))
    /\ Do(LowerAll(NewKids(1)))
    /\ UNCHANGED <<fb, loop_stack>>

\* Children of a match: the subject, the body of each arm, the guards there are.
GuardsUpTo(arms, i) == Cardinality({j \in 1..i : arms[j].guard})
BodyKid(i) == 1 + i
GuardKid(arms, i) == 1 + Len(arms) + GuardsUpTo(arms, i)
MatchKids(arms) == GuardKid(arms, Len(arms))

VisitMatch ==
    \E arms \in ArmLists :
        /\ Reading
        /\ LET node == [Node("match", NewKids(MatchKids(arms)), FALSE)
                          EXCEPT !.arms = arms]
           IN /\ Read(Top.e, node)
              /\ Do(<<LowerExpr(node.kids[1]), Then("match_switch", Top.e, node)>>)
        /\ UNCHANGED <<fb, loop_stack>>

\* A guard is evaluated in the block of its arm and does not branch.
LowerArm(i) ==
    (IF Top.node.arms[i].guard THEN <<LowerExpr(Kid(GuardKid(Top.node.arms, i)))>>
     ELSE <<>>)
    \o <<LowerExpr(Kid(BodyKid(i)))>>

Known(arm) == arm.pat.k = "lit"    \* pattern_discriminant returns Some

\* The block of arm i comes i after the join block; the last arm is the default.
SwitchOn(e, arms, join_bb) ==
    LET otherwise == join_bb + Len(arms)
    IN Switch(e, [i \in 1..Len(arms) |->
                     IF Known(arms[i]) THEN join_bb + i ELSE otherwise],
                 [i \in 1..Len(arms) |->
                     IF Known(arms[i]) THEN arms[i].pat.d ELSE NoDiscriminant],
              otherwise)

MatchSwitch ==
    /\ Running("match_switch")
    /\ LET arms    == Top.node.arms
           n       == Len(arms)
           join_bb == NextBlock(fb)
           closed  == Terminate(NewBlocks(fb, n + 1), SwitchOn(Top.e, arms, join_bb))
       IN IF n = 0
          THEN fb' = SwitchTo(closed, join_bb) /\ Do(<<>>)
          ELSE /\ fb' = SwitchTo(closed, join_bb + 1)
               /\ Do(Append(LowerArm(1), Rest("match_arm",
                         Append([i \in 1..(n - 1) |-> join_bb + 1 + i], join_bb))))
    /\ UNCHANGED <<ast, loop_stack>>

MatchArm ==
    /\ Running("match_arm")
    /\ LET join_bb == Top.owes[Len(Top.owes)]
           next_bb == Head(Top.owes)
       IN /\ fb' = SwitchTo(Terminate(fb, Goto(join_bb)), next_bb)
          /\ IF Top.at = Len(Top.node.arms) THEN Do(<<>>)
             ELSE Do(Append(LowerArm(Top.at + 1), Onward(Tail(Top.owes))))
    /\ UNCHANGED <<ast, loop_stack>>

-----------------------------------------------------------------------------
(* Loops                                                                   *)

LoopCtx(break_block, continue_block) ==
    [break_block |-> break_block, continue_block |-> continue_block]
PushLoop(exit, hdr) == loop_stack' = Append(loop_stack, LoopCtx(exit, hdr))
\* Slip: the LoopCtx of a finished loop stays on the stack.
KeepLoop == UNCHANGED loop_stack
PopLoop == loop_stack' = SubSeq(loop_stack, 1, Len(loop_stack) - 1)

VisitInfinite ==
    /\ Reading
    /\ LET node   == Node("infinite", NewKids(1), FALSE)
           hdr    == NextBlock(fb)
           body   == hdr + 1
           exit   == hdr + 2
           at_hdr == SwitchTo(Terminate(NewBlocks(fb, 3), Goto(hdr)), hdr)
       IN /\ Read(Top.e, node)
          /\ fb' = SwitchTo(Terminate(at_hdr, Goto(body)), body)
          /\ PushLoop(exit, hdr)
          /\ Do(<<LowerExpr(node.kids[1]),
                  Frame("loop_end", Top.e, node, <<exit>>, hdr, 1)>>)

(***************************************************************************)
(* Children: the body, the condition, value or iterable of the header, and *)
(* the else block, which lowering never reads.  Without the feature        *)
(* "iterable", what an `in` loop runs over is a plain name.                *)
(***************************************************************************)
VisitLoop ==
    \E k \in TestedLoops, else \in BOOLEAN :
        /\ Reading
        /\ else => k # "let" /\ "loop_else" \in Features
        /\ LET node == Node(k, NewKids(IF else THEN 3 ELSE 2), else)
               hdr  == NextBlock(fb)
               head == IF k = "in" /\ "iterable" \notin Features
                       THEN <<>> ELSE <<LowerExpr(node.kids[2])>>
           IN /\ Read(Top.e, node)
              /\ fb' = SwitchTo(Terminate(NewBlocks(fb, 3), Goto(hdr)), hdr)
              /\ Do(Append(head, Frame("loop_test", Top.e, node,
                                       <<hdr + 1, hdr + 2>>, hdr, 1)))
        /\ UNCHANGED loop_stack

\* The header ends; a `for` loop calls __iter_next first and opens its body
\* with the binding of the element.
LoopTest ==
    /\ Running("loop_test")
    /\ LET body    == Top.owes[1]
           exit    == Top.owes[2]
           check   == NextBlock(fb)
           start   == check + 1
           asked   == SwitchTo(Terminate(NewBlocks(fb, 1), Call(0, check)), check)
           bound   == SwitchTo(Terminate(asked, Branch(Top.e, body, exit)), body)
       IN /\ IF Top.node.k = "in"
             THEN fb' = SwitchTo(Terminate(NewBlocks(bound, 1), Goto(start)), start)
             ELSE fb' = SwitchTo(Terminate(fb, Branch(Top.e, body, exit)), body)
          /\ PushLoop(exit, Top.hdr)
          /\ Do(<<LowerExpr(Kid(1)), Rest("loop_end", <<exit>>)>>)
    /\ UNCHANGED ast

LoopEnd ==
    /\ Running("loop_end")
    /\ fb' = SwitchTo(Terminate(fb, Goto(Top.hdr)), Top.owes[1])
    /\ PopLoop
    /\ Do(<<>>)
    /\ UNCHANGED ast

\* `fork loop`: the iterable is evaluated before the header and no LoopCtx
\* is pushed.
VisitForkLoop ==
    /\ Reading
    /\ LET node == Node("forkloop", NewKids(2), FALSE)
       IN /\ Read(Top.e, node)
          /\ Do(<<LowerExpr(node.kids[2]), Then("fork_head", Top.e, node)>>)
    /\ UNCHANGED <<fb, loop_stack>>

ForkHead ==
    /\ Running("fork_head")
    /\ LET hdr    == NextBlock(fb)
           body   == hdr + 1
           exit   == hdr + 2
           check  == hdr + 3
           at_hdr == SwitchTo(Terminate(NewBlocks(fb, 3), Goto(hdr)), hdr)
           at_chk == SwitchTo(Terminate(NewBlocks(at_hdr, 1), Call(0, check)), check)
       IN /\ fb' = SwitchTo(Terminate(at_chk, Branch(Top.e, body, exit)), body)
          /\ Do(<<LowerExpr(Kid(1)),
                  Frame("fork_end", Top.e, Top.node, <<exit>>, hdr, 1)>>)
    /\ UNCHANGED <<ast, loop_stack>>

ForkEnd ==
    /\ Running("fork_end")
    /\ LET push   == NextBlock(fb)
           pushed == SwitchTo(Terminate(NewBlocks(fb, 1), Call(0, push)), push)
       IN fb' = SwitchTo(Terminate(pushed, Goto(Top.hdr)), Top.owes[1])
    /\ Do(<<>>)
    /\ UNCHANGED <<ast, loop_stack>>

-----------------------------------------------------------------------------
(* Jumps.  The statement forms lower exactly as the expression forms.      *)

\* What a break or next may stand in, given the features switched on.
Allowed ==
    \/ LoopEnds = {} /\ "stray" \in Features
    \/ \E i \in LoopEnds :
          /\ \A j \in LoopEnds : i <= j
          /\ agenda[i].op = "loop_end" \/ "fork_break" \in Features
JumpLabels ==
    {0} \cup IF "label" \in Features
            THEN {agenda[i].e : i \in {j \in LoopEnds : agenda[j].op = "loop_end"}}
            ELSE {}

\* Slips: the loop around the innermost one, and the wrong end of a loop.
OuterNextTarget ==
    IF Len(loop_stack) < 2 THEN Entry
    ELSE loop_stack[Len(loop_stack) - 1].continue_block
NextToExit ==
    IF loop_stack = <<>> THEN Entry ELSE loop_stack[Len(loop_stack)].break_block
BreakToHeader ==
    IF loop_stack = <<>> THEN Entry ELSE loop_stack[Len(loop_stack)].continue_block

\* Labels are not looked at: the innermost LoopCtx, or the entry block.
BreakTarget ==
    IF loop_stack = <<>> THEN Entry ELSE loop_stack[Len(loop_stack)].break_block
NextTarget ==
    IF loop_stack = <<>> THEN Entry ELSE loop_stack[Len(loop_stack)].continue_block

\* Outside a loop there is no local for the value and it is not lowered.
VisitBreak ==
    \E n \in {0, 1}, label \in JumpLabels :
        /\ Reading /\ Allowed
        /\ Read(Top.e, [Node("break", NewKids(n), FALSE) EXCEPT !.label = label])
        /\ Do(Append(IF loop_stack = <<>> THEN <<>> ELSE LowerAll(NewKids(n)),
                     Then("break_end", Top.e, Leaf)))
        /\ UNCHANGED <<fb, loop_stack>>

BreakEnd ==
    /\ Running("break_end")
    /\ fb' = Terminate(fb, Goto(BreakTarget))
    /\ Do(<<>>)
    /\ UNCHANGED <<ast, loop_stack>>

VisitNext ==
    \E label \in JumpLabels :
        /\ Reading /\ Allowed
        /\ Read(Top.e, [Node("next", <<>>, FALSE) EXCEPT !.label = label])
        /\ fb' = Terminate(fb, Goto(NextTarget))
        /\ Do(<<>>)
        /\ UNCHANGED loop_stack

VisitReturn ==
    \E n \in {0, 1} :
        /\ Reading
        /\ Read(Top.e, Node("ret", NewKids(n), FALSE))
        /\ Do(Append(LowerAll(NewKids(n)), Then("ret_end", Top.e, Leaf)))
        /\ UNCHANGED <<fb, loop_stack>>

ReturnEnd ==
    /\ Running("ret_end")
    /\ fb' = Terminate(fb, Return)
    /\ Do(<<>>)
    /\ UNCHANGED <<ast, loop_stack>>

-----------------------------------------------------------------------------
(* The function is node 1: `n` statements and perhaps a tail.              *)

Init ==
    \E n \in 0..MaxOperands, tail \in BOOLEAN :
        LET kids == [i \in 1..(n + IF tail THEN 1 ELSE 0) |-> 1 + i]
        IN /\ Len(kids) < MaxNodes
           /\ ast = <<Node("fn", kids, tail)>> \o [i \in 1..Len(kids) |-> Leaf]
           /\ agenda = <<Then("fn_stmts", 1, Node("fn", kids, tail))>>
           /\ fb = NewFn
           /\ loop_stack = <<>>

Visit ==
    \/ VisitOperands \/ VisitCall \/ VisitBlock \/ VisitIf \/ VisitGuard
    \/ VisitDefer \/ VisitMatch \/ VisitInfinite \/ VisitLoop
    \/ VisitForkLoop \/ VisitBreak \/ VisitNext \/ VisitReturn

Resume ==
    \/ CallEnd \/ NextStmt \/ BlockTail \/ SkipStmt \/ FnTail \/ FnEnd
    \/ IfBranch \/ IfThen \/ IfElse \/ GuardTest \/ GuardEnd
    \/ MatchSwitch \/ MatchArm \/ LoopTest \/ LoopEnd
    \/ ForkHead \/ ForkEnd \/ BreakEnd \/ ReturnEnd

Lowered == agenda = <<>>

\* `lower_fn` has returned.
Returned == Lowered /\ UNCHANGED vars

Next == Visit \/ Resume \/ Returned

Spec == Init /\ [][Next]_vars

-----------------------------------------------------------------------------
(* Properties                                                              *)

TypeOK ==
    /\ ast \in Seq(NodeSet)
    /\ agenda \in Seq(FrameSet)
    /\ fb \in Builder
    /\ loop_stack \in Seq([break_block : Block, continue_block : Block])

Owed(b) == \E i \in DOMAIN agenda : \E j \in DOMAIN agenda[i].owes :
               agenda[i].owes[j] = b

(***************************************************************************)
(* Every block without a terminator is either the one being filled or is   *)
(* going to be switched to by exactly one call in progress, once; and the  *)
(* cached flag `terminated` agrees with the current block.  This is what   *)
(* makes `switch_to`, which clears the flag without looking at the block,  *)
(* and `set_term`, which overwrites, safe.                                 *)
(***************************************************************************)
OneOwner ==
    /\ fb.cur \in DOMAIN fb.term
    /\ fb.terminated <=> IsTerminated(fb, fb.cur)
    /\ \A b \in DOMAIN fb.term :
          ~IsTerminated(fb, b) <=> b \in Held(fb) \/ Owed(b)
    /\ \A i, k \in DOMAIN agenda :
          \A j \in DOMAIN agenda[i].owes, l \in DOMAIN agenda[k].owes :
             agenda[i].owes[j] = agenda[k].owes[l] => i = k /\ j = l
    /\ ~Owed(fb.cur)

(***************************************************************************)
(* loop_stack is the nesting of the loop bodies around the current point:  *)
(* the body that ends at place i of the agenda has as many around it,      *)
(* itself included, as end there or later.  `next` goes to a header that   *)
(* is closed already, `break` to an exit that has still to be filled.      *)
(***************************************************************************)
BodiesFrom(i) == {j \in DOMAIN agenda : j >= i /\ agenda[j].op = "loop_end"}
LoopNesting ==
    /\ Len(loop_stack) = Cardinality(BodiesFrom(1))
    /\ \A i \in BodiesFrom(1) :
          /\ loop_stack[Cardinality(BodiesFrom(i))] = LoopCtx(agenda[i].owes[1], agenda[i].hdr)
          /\ IsTerminated(fb, agenda[i].hdr)
          /\ ~IsTerminated(fb, agenda[i].owes[1])

\* Every target of a terminator is a block of the function.
TargetsExist ==
    \A b \in DOMAIN fb.term : Successors(fb.term[b]) \subseteq DOMAIN fb.term

\* "the final MIR should have each block terminated exactly once" (block.rs):
\* at least once, when lowering has returned, ...
AllTerminated == Lowered => IsFullyTerminated(fb)

\* ... and at most once: the life of a block, see BlockLife.
Life == [b \in DOMAIN fb.term |->
           [phase |-> IF IsTerminated(fb, b) THEN "closed"
                      ELSE IF b = fb.cur THEN "open" ELSE "waiting",
            term |-> fb.term[b]]]
BL == INSTANCE BlockLife WITH life <- Life, Blank <- Open
BlocksLiveOnce == BL!Spec

\* Execution enters a function once: nothing jumps to its first block, as
\* long as break and next stand in a loop that pushes a LoopCtx.
EntryNotRejoined ==
    Features \cap {"stray", "fork_break"} = {} =>
        \A b \in DOMAIN fb.term : Entry \notin Successors(fb.term[b])
=============================================================================
