------------------------------ MODULE ProcessChain ------------------------------
(***************************************************************************)
(* The executor of the process chain language (cyfs-process-chain): one     *)
(* run of a library for one request.  A library runs its chains in order, a  *)
(* chain its blocks, a block its lines; exec, invoke and goto call another   *)
(* block, chain or library; return, error, exit and break are results that   *)
(* travel outwards until some level stops them.                              *)
(*                                                                          *)
(* The Rust code is a recursion of async functions.  Here its activations    *)
(* are the frames of ctl, innermost last, and ret is either Run (the         *)
(* innermost activation goes on) or the result it has just received from     *)
(* inside.  The text of the blocks is left open: every command is a choice,  *)
(* so one behaviour is one run of some program on some request.  The         *)
(* variables of the language are one name, x, at block and chain level, and  *)
(* the arguments __args of invoke.                                           *)
(***************************************************************************)
EXTENDS Naturals, Sequences, SequencesExt, FiniteSetsExt

CONSTANTS
  LibOrder,     \* the linked libraries, by priority
  ChainsOf,     \* [library -> sequence of its chains]
  BlocksOf,     \* [library -> [chain -> sequence of its blocks]]
  MaxDepth,     \* MAX_STACK_DEPTH
  MaxGoto,      \* MAX_GOTO_COUNT
  MaxItems,     \* items of a collection a loop walks over
  Programs,     \* the kinds of command a program uses, the arguments its invoke and
                \* goto pass, and how many commands one run executes
  NoId          \* an identifier that is not given

ASSUME ChainAssumption ==
  \A w \in Programs : DOMAIN w = {"commands", "args", "fuel"} /\ w.fuel \in Nat

VARIABLES
  program,  \* the program of this behaviour; it never changes
  ctl,      \* the activations, innermost last
  pointer,  \* ExecPointerStack
  envs,     \* the chain level environments created so far
  ret,      \* Run, or the result given to the innermost activation
  fuel,     \* commands the run may still use
  gotos,    \* goto commands executed
  owed,     \* history: the activation the last control result has to leave
  libOwed   \* history: the library activation a `return --from lib` names

vars == <<program, ctl, pointer, envs, ret, fuel, gotos, owed, libOwed>>

Levels == {"block", "chain", "lib"}

(* CommandResult: a value, an error value, or a control; "fail" is the Err  *)
(* of the Rust functions and "panic" the abort of the task.                  *)
Res(kind, level) == [kind |-> kind, level |-> level]
Result(kind) == Res(kind, "none")
Run == Result("run")
IsControl(r) == r.kind \in {"return", "raise", "exit", "break"}

HasChain(l, c) == c \in Range(ChainsOf[l])
HasBlock(l, c, b) == b \in Range(BlocksOf[l][c])

(* The entries of the execution pointer.                                     *)
LibAt(l) == [k |-> "lib", lib |-> l, chain |-> NoId, block |-> NoId]
ChainAt(l, c) == [k |-> "chain", lib |-> l, chain |-> c, block |-> NoId]
BlockAt(b) == [k |-> "block", lib |-> NoId, chain |-> NoId, block |-> b]

(* current_lib, current_chain, current_block: the topmost entry of a kind.   *)
Current(kind) == pointer[Max({i \in DOMAIN pointer : pointer[i].k = kind})]

(* check_depth of all the guards a call takes at once.                       *)
Fits(entries) == Len(pointer) + Len(entries) <= MaxDepth

(* The activations.                                                         *)
LibFrame(l, e) ==
  [k |-> "lib", lib |-> l, at |-> 0, env |-> e, last |-> Result("success")]
ChainFrame(l, c, e) ==
  [k |-> "chain", lib |-> l, chain |-> c, at |-> 0, env |-> e,
   last |-> Result("success"), pops |-> IF BlocksOf[l][c] = <<>> THEN 0 ELSE 1]
BlockFrame(l, c, b, e) ==
  [k |-> "block", lib |-> l, chain |-> c, block |-> b, env |-> e,
   x |-> NoId, lev |-> NoId, last |-> Result("success")]
CallFrame(how, args, pops, local, ok, err) ==
  [k |-> "call", how |-> how, args |-> args, pops |-> pops,
   local |-> local, ok |-> ok, err |-> err]

Top == Last(ctl)
InnerOf(s) == Max({i \in DOMAIN s : s[i].k = "block"})
Inner == InnerOf(ctl)
Here == ctl[Inner]

(* Positions where a statement may start, and where only one command may.    *)
AtStatement == ctl # <<>> /\ ret = Run /\ Top.k \in {"block", "for", "branch"}
AtCommand == ctl # <<>> /\ ret = Run /\ Top.k \in {"block", "for", "branch", "cond", "match"}

SetTop(f) == Front(ctl) \o <<f>>
Pop(s, n) == SubSeq(s, 1, Len(s) - n)

(* The activation of stack s a control result ends: the nearest of its      *)
(* level, but never past the call that started the code it is in.            *)
Within(s, kind) ==
  LET calls == {i \in DOMAIN s : s[i].k = "call"}
      floor == IF calls = {} THEN 0 ELSE Max(calls)
  IN {i \in DOMAIN s : i > floor /\ s[i].k = kind}
Ends(s, r) ==
  CASE r.kind \in {"return", "raise"} ->
         LET wider == (IF r.level = "lib" THEN Within(s, "lib") ELSE {})
                      \cup (IF r.level = "chain" \/ Within(s, "lib") = {} THEN Within(s, "chain") ELSE {})
         IN IF r.level = "block" \/ wider = {} THEN InnerOf(s) ELSE Max(wider)
    [] r.kind = "break" ->
         LET loops == {i \in DOMAIN s : i > InnerOf(s) /\ s[i].k = "for"}
         IN IF loops = {} THEN 1 ELSE Max(loops)
    [] OTHER -> 1
Leaves(s, r) == IF IsControl(r) \/ r.kind = "fail" THEN Ends(s, r) ELSE 0

Init ==
  /\ program \in Programs
  /\ ctl = <<>> /\ pointer = <<>> /\ envs = <<>>
  /\ ret = Result("start") /\ fuel = program.fuel /\ gotos = 0
  /\ owed = 0 /\ libOwed = 0

NewEnv(args) == [x |-> NoId, args |-> args, by |-> {}]

(* A command gives r; a control result has an activation to leave.           *)
Give(r) ==
  /\ ret' = r
  /\ owed' = Leaves(ctl, r)
  /\ libOwed' = IF r = Res("return", "lib") /\ \E i \in DOMAIN ctl : ctl[i].k = "lib"
                THEN Max({i \in DOMAIN ctl : ctl[i].k = "lib"}) ELSE libOwed

(* What is no longer there has been left.                                    *)
Forget(s) ==
  /\ owed' = IF Len(s) < owed THEN 0 ELSE owed
  /\ libOwed' = IF Len(s) < libOwed THEN 0 ELSE libOwed

Spend(kind) == kind \in program.commands /\ fuel > 0 /\ fuel' = fuel - 1

----------------------------------------------------------------------------
(* ProcessChainLibExecutor: a hook point runs a library in a new context.    *)
StartLib(l) ==
  /\ ret.kind = "start"
  /\ envs' = <<NewEnv(NoId)>>
  /\ pointer' = <<LibAt(l)>>
  /\ ctl' = <<LibFrame(l, 1)>> /\ ret' = Run
  /\ UNCHANGED <<program, fuel, gotos, owed, libOwed>>

(* execute_lib: the next chain, in the environment the library was given.    *)
NextChain ==
  /\ ctl # <<>> /\ ret = Run /\ Top.k = "lib" /\ Top.at < Len(ChainsOf[Top.lib])
  /\ LET c == ChainsOf[Top.lib][Top.at + 1]
         entry == IF BlocksOf[Top.lib][c] = <<>> THEN <<>> ELSE <<ChainAt(Top.lib, c)>>
         here == SetTop([Top EXCEPT !.at = @ + 1])
     IN IF Fits(entry)
        THEN /\ ctl' = here \o <<ChainFrame(Top.lib, c, Top.env)>>
             /\ pointer' = pointer \o entry
             /\ UNCHANGED <<ret, owed>>
        ELSE /\ ctl' = here /\ UNCHANGED pointer
             /\ ret' = Result("fail") /\ owed' = 1
  /\ UNCHANGED <<program, envs, fuel, gotos, libOwed>>

(* execute_chain: the next block, in a block environment of its own.         *)
NextBlock ==
  /\ ctl # <<>> /\ ret = Run /\ Top.k = "chain"
  /\ Top.at < Len(BlocksOf[Top.lib][Top.chain])
  /\ LET b == BlocksOf[Top.lib][Top.chain][Top.at + 1]
         here == SetTop([Top EXCEPT !.at = @ + 1])
     IN IF Fits(<<BlockAt(b)>>)
        THEN /\ ctl' = here \o <<BlockFrame(Top.lib, Top.chain, b, Top.env)>>
             /\ pointer' = pointer \o <<BlockAt(b)>>
             /\ UNCHANGED <<ret, owed>>
        ELSE /\ ctl' = here /\ UNCHANGED pointer
             /\ ret' = Result("fail") /\ owed' = 1
  /\ UNCHANGED <<program, envs, fuel, gotos, libOwed>>

(* The last chain of a library, or the last block of a chain, is done.       *)
EndUnit ==
  /\ ctl # <<>> /\ ret = Run
  /\ \/ Top.k = "lib" /\ Top.at = Len(ChainsOf[Top.lib]) /\ pointer' = Pop(pointer, 1)
     \/ Top.k = "chain" /\ Top.at = Len(BlocksOf[Top.lib][Top.chain])
        /\ pointer' = Pop(pointer, Top.pops)
  /\ ctl' = Front(ctl) /\ ret' = Top.last /\ Forget(ctl')
  /\ UNCHANGED <<program, envs, fuel, gotos>>

(* execute_chain and execute_lib given the result of a block or of a chain:  *)
(* which controls stop the unit, and which let it go on.                     *)
StopsChain(r) == r.kind = "exit" \/ (r.kind \in {"return", "raise"} /\ r.level # "block")
StopsLib(r) == r.kind = "exit" \/ (r.kind \in {"return", "raise"} /\ r.level = "lib")

UnitResult ==
  /\ ctl # <<>> /\ ret # Run /\ Top.k \in {"chain", "lib"}
  /\ LET stops == \/ ret.kind \in {"fail", "break"}
                  \/ Top.k = "chain" /\ StopsChain(ret)
                  \/ Top.k = "lib" /\ StopsLib(ret)
     IN IF stops
        THEN /\ ctl' = Front(ctl) /\ Forget(ctl')
             /\ pointer' = Pop(pointer, IF Top.k = "lib" THEN 1 ELSE Top.pops)
             /\ ret' = IF ret.kind = "break" THEN Result("fail") ELSE ret
        ELSE /\ ctl' = SetTop([Top EXCEPT !.last = ret]) /\ ret' = Run
             /\ UNCHANGED <<pointer, owed, libOwed>>
  /\ UNCHANGED <<program, envs, fuel, gotos>>

\* Mutant: the value is read through the scopes around the block.
SnapshotMutant == [x |-> IF Here.x # NoId THEN Here.x ELSE envs[Here.env].x, lev |-> Here.lev]

----------------------------------------------------------------------------
(* Scopes of a statement: snapshot_block_var and restore_block_vars of x.    *)
Snapshot == [x |-> Here.x, lev |-> Here.lev]
Restored(s, i, snap) == [s EXCEPT ![i].x = snap.x, ![i].lev = snap.lev]

(* env().set(x, v, level): the value, and the level later reads start from.  *)
Tracked(lev, level) == IF lev = NoId /\ level = "chain" THEN NoId ELSE level
Bound(s, i, v) == [s EXCEPT ![i].x = v, ![i].lev = Tracked(@, "block")]

(* execute_block, execute_nested_lines, and the branches of match-result,    *)
(* given the result of a line.                                               *)
LineResult ==
  /\ ctl # <<>> /\ ret # Run /\ Top.k \in {"block", "branch"}
  /\ IF IsControl(ret) \/ ret.kind = "fail"
     THEN /\ ctl' = IF Top.k = "block" THEN Front(ctl)
                    ELSE Restored(Front(ctl), Inner, Top.snap)
          /\ pointer' = IF Top.k = "block" THEN Pop(pointer, 1) ELSE pointer
          /\ Forget(ctl') /\ UNCHANGED ret
     ELSE /\ ctl' = SetTop([Top EXCEPT !.last = ret]) /\ ret' = Run
          /\ UNCHANGED <<pointer, owed, libOwed>>
  /\ UNCHANGED <<program, envs, fuel, gotos>>

(* No line is left: the result is that of the last one.                      *)
EndLines ==
  /\ AtStatement /\ Top.k \in {"block", "branch"}
  /\ ret' = Top.last
  /\ ctl' = IF Top.k = "block" THEN Front(ctl) ELSE Restored(Front(ctl), Inner, Top.snap)
  /\ pointer' = IF Top.k = "block" THEN Pop(pointer, 1) ELSE pointer
  /\ Forget(ctl')
  /\ UNCHANGED <<program, envs, fuel, gotos>>

(* execute_for_statement: the first item is bound, or there is none.         *)
For(items) ==
  /\ AtStatement /\ Spend("for")
  /\ LET frame == [k |-> "for", snap |-> Snapshot, true |-> [x |-> Here.x, lev |-> Here.lev],
                   left |-> items - 1, last |-> Result("success")]
     IN IF items = 0 THEN ret' = Result("success") /\ UNCHANGED ctl
        ELSE ctl' = Bound(ctl, Inner, "item") \o <<frame>> /\ UNCHANGED ret
  /\ UNCHANGED <<program, pointer, envs, gotos, owed, libOwed>>

LeaveLoop(r) ==
  /\ ctl' = Restored(Front(ctl), Inner, Top.snap)
  /\ ret' = r /\ Forget(ctl')

(* One iteration ends: the next item, or the end of the loop.                *)
NextItem ==
  /\ ctl # <<>> /\ ret = Run /\ Top.k = "for"
  /\ IF Top.left > 0
     THEN /\ ctl' = Bound(SetTop([Top EXCEPT !.left = @ - 1]), Inner, "item")
          /\ UNCHANGED <<ret, owed, libOwed>>
     ELSE LeaveLoop(Top.last)
  /\ UNCHANGED <<program, pointer, envs, fuel, gotos>>

(* A result in the body: break ends the loop with success, other controls    *)
(* and errors of the executor leave it, a value is the iteration's so far.   *)
LoopResult ==
  /\ ctl # <<>> /\ ret # Run /\ Top.k = "for"
  /\ CASE ret.kind = "break" -> LeaveLoop(Result("success"))
       [] ret.kind # "break" /\ (IsControl(ret) \/ ret.kind = "fail") -> LeaveLoop(ret)
       [] OTHER -> /\ ctl' = SetTop([Top EXCEPT !.last = ret]) /\ ret' = Run
                   /\ UNCHANGED <<owed, libOwed>>
  /\ UNCHANGED <<program, pointer, envs, fuel, gotos>>

(* if and case: the condition runs first, and no control may come out of it. *)
(* (A statement that needs a command leaves fuel for it.)                    *)
If ==
  /\ AtStatement /\ Spend("if") /\ fuel > 1
  /\ ctl' = ctl \o <<[k |-> "cond"]>>
  /\ UNCHANGED <<program, pointer, envs, ret, gotos, owed, libOwed>>

CondResult ==
  /\ ctl # <<>> /\ ret # Run /\ Top.k = "cond"
  /\ ctl' = Front(ctl)
  /\ IF IsControl(ret) \/ ret.kind = "fail"
     THEN ret' = Result("fail") /\ owed' = 1 /\ UNCHANGED libOwed
     ELSE /\ ret' \in {Run, Result("success")}  \* a branch, or none
          /\ UNCHANGED <<owed, libOwed>>
  /\ UNCHANGED <<program, pointer, envs, fuel, gotos>>

(* case with a subject: the subject is bound around conditions and lines.    *)
Scope == [k |-> "branch", snap |-> Snapshot, true |-> [x |-> Here.x, lev |-> Here.lev],
          last |-> Result("success")]
Case ==
  /\ AtStatement /\ Spend("case") /\ fuel > 1
  /\ ctl' = Bound(ctl, Inner, "subject") \o <<Scope, [k |-> "cond"]>>
  /\ UNCHANGED <<program, pointer, envs, ret, gotos, owed, libOwed>>

(* match-result: the result of one command selects a branch, controls too.   *)
MatchResult(catches) ==
  /\ AtStatement /\ Spend("match") /\ fuel > 1
  /\ ctl' = ctl \o <<[k |-> "match", catches |-> catches]>>
  /\ UNCHANGED <<program, pointer, envs, ret, gotos, owed, libOwed>>

MatchBranch ==
  /\ ctl # <<>> /\ ret # Run /\ Top.k = "match"
  /\ LET class == IF IsControl(ret) THEN "control" ELSE ret.kind
     IN IF class \in Top.catches
        THEN /\ ctl' = Bound(Front(ctl), Inner, "caught") \o <<Scope>>
             /\ ret' = Run /\ owed' = 0 /\ libOwed' = 0
        ELSE ctl' = Front(ctl) /\ UNCHANGED ret /\ Forget(ctl')
  /\ UNCHANGED <<program, pointer, envs, fuel, gotos>>

----------------------------------------------------------------------------
(* The commands.  Any other command, and the subject of a loop or case, may  *)
(* give a value, an error value, or an Err.                                  *)
Simple(r) ==
  /\ AtCommand /\ Spend("simple")
  /\ Give(r)
  /\ UNCHANGED <<program, ctl, pointer, envs, gotos>>

(* return, error, exit and break.                                            *)
Control(r) ==
  /\ AtCommand /\ Spend(r.kind)
  /\ Give(r)
  /\ UNCHANGED <<program, ctl, pointer, envs, gotos>>

(* `x=v` and `local x=v`.                                                    *)
Assign(level) ==
  /\ AtCommand /\ Spend("assign")
  /\ ctl' = [ctl EXCEPT ![Inner].x = IF level = "block" THEN "set" ELSE @,
                        ![Inner].lev = Tracked(@, level)]
  /\ envs' = IF level = "block" THEN envs
             ELSE [envs EXCEPT ![Here.env] =
                     [@ EXCEPT !.x = "set", !.by = @ \cup {<<Here.lib, Here.chain>>}]]
  /\ Give(Result("success"))
  /\ UNCHANGED <<program, pointer, gotos>>

----------------------------------------------------------------------------
(* Where a target is: search_lib, search_chain and search_block.  A linked   *)
(* library answers an unknown chain with an error, not with None.            *)
Target(l, c, b) == [lib |-> l, chain |-> c, block |-> b]
At(out, l, c, sameLib, sameChain) ==
  [out |-> out, lib |-> l, chain |-> c, sameLib |-> sameLib, sameChain |-> sameChain]
NotFound == At("fail", NoId, NoId, FALSE, FALSE)

SearchChain(t) ==
  LET lib == Current("lib").lib
      cur == Current("chain")
      local == t.lib \in {NoId, lib}
  IN CASE local /\ t.chain = cur.chain -> At("found", lib, t.chain, TRUE, TRUE)
       [] local /\ t.chain # cur.chain /\ HasChain(lib, t.chain) ->
            At("found", lib, t.chain, TRUE, FALSE)
       [] ~local /\ HasChain(t.lib, t.chain) -> At("found", t.lib, t.chain, FALSE, FALSE)
       [] OTHER -> NotFound

(* ProcessChainLinkedManager::get_block without a library: the first library *)
(* that answers.  When none has the block, the warning about it unwraps the  *)
(* library that was not given.                                               *)
AnyLibrary(c, b) ==
  LET unknown == {i \in DOMAIN LibOrder : ~HasChain(LibOrder[i], c)}
      holds == {i \in DOMAIN LibOrder : HasChain(LibOrder[i], c) /\ HasBlock(LibOrder[i], c, b)}
  IN IF unknown \cup holds = {} THEN At("panic", NoId, NoId, FALSE, FALSE)
     ELSE LET i == Min(unknown \cup holds)
          IN IF i \in holds THEN At("found", LibOrder[i], c, FALSE, FALSE) ELSE NotFound

SearchBlock(t) ==
  LET lib == Current("lib").lib
      cur == Current("chain")
      local == t.lib \in {NoId, lib}
      here == local /\ t.chain \in {NoId, cur.chain} /\ HasBlock(cur.lib, cur.chain, t.block)
      sibling == local /\ ~here /\ t.chain # NoId /\ HasChain(lib, t.chain)
  IN CASE here -> At("found", lib, cur.chain, TRUE, TRUE)
       [] sibling /\ HasBlock(lib, t.chain, t.block) -> At("found", lib, t.chain, TRUE, FALSE)
       [] sibling /\ ~HasBlock(lib, t.chain, t.block) /\ t.lib = NoId -> AnyLibrary(t.chain, t.block)
       [] ~local /\ HasChain(t.lib, t.chain) /\ HasBlock(t.lib, t.chain, t.block) ->
            At("found", t.lib, t.chain, FALSE, FALSE)
       [] OTHER -> NotFound

Search(scope, t) ==
  CASE scope = "block" -> SearchBlock(t)
    [] scope = "chain" -> SearchChain(t)
    [] scope = "lib"   -> At("found", t.lib, NoId, FALSE, FALSE)

(* Which calls run in the caller's own chain environment (Cow::Borrowed).    *)
SharesEnv(how, scope, r) == how = "exec" /\ scope = "block" /\ r.sameChain

\* Mutant: a block of another chain of the same library leaves the chain pointer.
GuardsMutant(scope, r) ==
  CASE scope = "lib" -> <<>>
    [] scope = "chain" -> IF r.sameLib THEN <<>> ELSE <<LibAt(r.lib)>>
    [] scope = "block" -> IF r.sameLib THEN <<>> ELSE <<LibAt(r.lib), ChainAt(r.lib, r.chain)>>

(* The guards a call pushes before it enters its target.                     *)
Guards(scope, r) ==
  CASE scope = "lib" -> <<>>
    [] scope = "chain" -> IF r.sameLib THEN <<>> ELSE <<LibAt(r.lib)>>
    [] scope = "block" -> (IF r.sameLib THEN <<>> ELSE <<LibAt(r.lib)>>)
                          \o (IF r.sameChain THEN <<>> ELSE <<ChainAt(r.lib, r.chain)>>)

Entry(scope, t, r) ==
  CASE scope = "lib" -> <<LibAt(t.lib)>>
    [] scope = "chain" -> IF BlocksOf[r.lib][r.chain] = <<>> THEN <<>> ELSE <<ChainAt(r.lib, r.chain)>>
    [] scope = "block" -> <<BlockAt(t.block)>>

Callee(scope, t, r, e) ==
  CASE scope = "lib" -> LibFrame(t.lib, e)
    [] scope = "chain" -> ChainFrame(r.lib, r.chain, e)
    [] scope = "block" -> BlockFrame(r.lib, r.chain, t.block, e)

(* invoke asserts that another chain is in another library.                  *)
Asserts(how, scope, r) == how # "exec" /\ scope = "block" /\ ~r.sameChain /\ r.sameLib

Abort ==
  /\ ctl' = <<>> /\ pointer' = <<>> /\ ret' = Result("panic")
  /\ owed' = 0 /\ libOwed' = 0
  /\ UNCHANGED envs

(* exec, invoke and goto up to the first line of the target.                 *)
Call(how, scope, t, args, ok, err) ==
  /\ AtCommand /\ Spend(how) /\ UNCHANGED program
  /\ gotos' = IF how = "goto" THEN gotos + 1 ELSE gotos
  /\ LET r == Search(scope, t)
         shares == SharesEnv(how, scope, r)
         e == IF shares THEN Here.env ELSE Len(envs) + 1
         guards == Guards(scope, r)
         pushed == guards \o Entry(scope, t, r)
     IN IF r.out = "panic" \/ (r.out = "found" /\ Asserts(how, scope, r)) THEN Abort
        ELSE IF r.out = "fail" \/ ~Fits(pushed)
        THEN Give(Result("fail")) /\ UNCHANGED <<ctl, pointer, envs>>
        ELSE /\ ctl' = ctl \o <<CallFrame(how, args, Len(guards), t.lib = NoId, ok, err),
                                Callee(scope, t, r, e)>>
             /\ pointer' = pointer \o pushed
             /\ envs' = IF shares THEN envs ELSE Append(envs, NewEnv(args))
             /\ UNCHANGED <<ret, owed, libOwed>>

(* normalize_exec_result, and what goto makes of it.                         *)
Normalized(r) ==
  CASE r.kind = "return" -> Result("success")
    [] r.kind = "raise" -> Result("error")
    [] r.kind \in {"exit", "break"} -> Result("fail")
    [] OTHER -> r
Returned(f, r) ==
  CASE f.how = "goto" /\ r.kind = "success" -> Res("return", f.ok)
    [] f.how = "goto" /\ r.kind = "error" -> Res("raise", f.err)
    [] OTHER -> r

CallResult ==
  /\ ctl # <<>> /\ ret # Run /\ Top.k = "call"
  /\ LET r == Returned(Top, Normalized(ret)) IN
     /\ ctl' = Front(ctl) /\ pointer' = Pop(pointer, Top.pops)
     /\ ret' = r
     /\ libOwed' = IF Len(ctl') < libOwed THEN 0 ELSE libOwed
     /\ owed' = IF owed \in 1..Len(ctl') THEN owed ELSE Leaves(ctl', r)
  /\ UNCHANGED <<program, envs, fuel, gotos>>

Done == ctl = <<>> /\ ret.kind # "start" /\ UNCHANGED vars

----------------------------------------------------------------------------
AllChains == UNION {Range(ChainsOf[l]) : l \in Range(LibOrder)}
AllBlocks == UNION {UNION {Range(BlocksOf[l][c]) : c \in Range(ChainsOf[l])} : l \in Range(LibOrder)}

(* ExecTarget::parse: the forms an identifier may have.                      *)
Targets(scope) ==
  CASE scope = "lib" -> {Target(l, NoId, NoId) : l \in Range(LibOrder)}
    [] scope = "chain" -> {Target(l, c, NoId) : l \in Range(LibOrder) \cup {NoId}, c \in AllChains}
    [] scope = "block" ->
         {Target(NoId, NoId, b) : b \in AllBlocks}
         \cup {Target(l, c, b) : l \in Range(LibOrder) \cup {NoId}, c \in AllChains, b \in AllBlocks}

Exec == \E scope \in Levels : \E t \in Targets(scope) : Call("exec", scope, t, NoId, NoId, NoId)
Invoke == \E scope \in Levels, a \in program.args : \E t \in Targets(scope) : Call("invoke", scope, t, a, NoId, NoId)
Goto == \E scope \in Levels, a \in program.args, ok, err \in Levels :
          \E t \in Targets(scope) : Call("goto", scope, t, a, ok, err)

Step ==
  \/ \E l \in Range(LibOrder) : StartLib(l)
  \/ NextChain \/ NextBlock \/ EndUnit \/ UnitResult
  \/ LineResult \/ EndLines
  \/ \E n \in 0..MaxItems : For(n)
  \/ NextItem \/ LoopResult
  \/ If \/ Case \/ CondResult
  \/ \E catches \in SUBSET {"success", "error", "control"} : MatchResult(catches)
  \/ MatchBranch
  \/ \E kind \in {"success", "error", "fail"} : Simple(Result(kind))
  \/ \E kind \in {"return", "raise"}, level \in Levels : Control(Res(kind, level))
  \/ \E kind \in {"exit", "break"} : Control(Result(kind))
  \/ \E level \in {"block", "chain"} : Assign(level)
  \/ Exec \/ Invoke \/ Goto \/ CallResult

Next == Step \/ Done

Spec == Init /\ [][Next]_vars

----------------------------------------------------------------------------
(* The activations, pointers and results have their types.                   *)
TypeOK ==
  /\ \A i \in DOMAIN ctl : ctl[i].k \in {"lib", "chain", "block", "for", "branch", "cond", "match", "call"}
  /\ \A i \in DOMAIN ctl : ctl[i].k = "block" =>
       /\ HasBlock(ctl[i].lib, ctl[i].chain, ctl[i].block)
       /\ ctl[i].env \in DOMAIN envs
       /\ ctl[i].lev \in {NoId, "block", "chain"}
  /\ \A i \in DOMAIN pointer : pointer[i].k \in Levels
  /\ ret.level \in Levels \cup {"none"}
  /\ fuel \in 0..program.fuel /\ gotos \in 0..program.fuel
  /\ owed \in 0..Len(ctl) /\ libOwed \in 0..Len(ctl)

(* Whenever a command runs, the execution pointer the target searches read   *)
(* names the library, chain and block that command is in, whatever calls,    *)
(* returns and errors came before; and it is empty when the run is over.     *)
PointerCoherent ==
  /\ AtCommand =>
       /\ Current("lib") = LibAt(Here.lib)
       /\ Current("chain") = ChainAt(Here.lib, Here.chain)
       /\ Current("block") = BlockAt(Here.block)
  /\ ctl = <<>> => pointer = <<>>

(* After return, error, exit, break or an executor error, nothing runs until *)
(* the activation that control names is gone: the block, chain or library it *)
(* was given in (or the target of the call it was given in), the loop for a  *)
(* break, the whole run for exit and for an executor error.  Only a          *)
(* match-result that catches controls stops it earlier.                      *)
ControlLeaves == ret = Run => owed = 0

(* Only an exec of a block of the caller's own chain runs in the caller's    *)
(* chain environment.                                                        *)
OwnBlock(i) ==
  /\ ctl[i].how = "exec" /\ ctl[i + 1].k = "block"
  /\ LET caller == ctl[InnerOf(SubSeq(ctl, 1, i))]
     IN <<ctl[i + 1].lib, ctl[i + 1].chain>> = <<caller.lib, caller.chain>>
Isolating == {i \in 1..(Len(ctl) - 1) : ctl[i].k = "call" /\ ~OwnBlock(i)}

(* A block reads in $__args exactly what the innermost invoke or goto it     *)
(* runs under passed, nothing under an exec of another chain or library,     *)
(* and its caller's arguments again after every call it makes.               *)
ArgsAreCallers ==
  AtCommand =>
    envs[Here.env].args =
      LET outer == {i \in Isolating : i < Inner}
      IN IF outer = {} THEN NoId ELSE ctl[Max(outer)].args

(* No command under a call into another chain or library, or under an        *)
(* invoke, changes a chain variable of the code that made the call.          *)
CallsIsolated ==
  [][\A i \in Isolating : \A j \in 1..(i - 1) :
       ctl[j].k = "block" => envs'[ctl[j].env].x = envs[ctl[j].env].x]_vars

(* However a loop or a branch of match-result is left - by its end, a break, *)
(* another control or an error -, the variable it bound is again what it was *)
(* in the block, value and scope, loops around it included.                  *)
BindingsRestored ==
  [][\A i \in DOMAIN ctl :
       (ctl[i].k \in {"for", "branch"} /\ Len(ctl') = i - 1 /\ ctl' # <<>>)
         => LET b == InnerOf(SubSeq(ctl, 1, i - 1))
            IN [x |-> ctl'[b].x, lev |-> ctl'[b].lev] = ctl[i].true]_vars

(* The executor at any command: its pointer, its controls and its arguments  *)
(* are those of the code that runs (execute_lib, execute_chain,              *)
(* execute_block, and the exec, invoke and goto commands).                   *)
RunCoherent == TypeOK /\ PointerCoherent /\ ControlLeaves /\ ArgsAreCallers

(* Variables keep their scope: a call does not change the caller's, a loop   *)
(* or branch gives back what it bound.                                       *)
ScopesKept == CallsIsolated /\ BindingsRestored

----------------------------------------------------------------------------
(* What the documentation of the language promises and the executor does not *)
(* keep.                                                                     *)

(* No command aborts the task: exec and invoke document the target           *)
(* `chain:block` as another chain of the current library.                    *)
NoAbort == ret.kind # "panic"

(* A target without a library is searched in the current library only.       *)
LocalTargets ==
  \A i \in 1..(Len(ctl) - 1) : (ctl[i].k = "call" /\ ctl[i].local) =>
    ctl[i + 1].lib = ctl[InnerOf(SubSeq(ctl, 1, i))].lib

(* `return --from lib` leaves the current library however deeply nested.     *)
LibReturnExits == ret = Run => libOwed = 0

(* Chains do not share their chain variables.                                *)
ChainVarsIsolated == \A e \in DOMAIN envs : \A a, b \in envs[e].by : a = b

(* A run executes at most MAX_GOTO_COUNT goto commands.                      *)
GotoBounded == gotos <= MaxGoto
=============================================================================
