------------------------------- MODULE Pipeline -------------------------------
(***************************************************************************)
(* The compiler up to the back end: genIR and cfgbuild make the control    *)
(* flow graphs of the functions of a program, opt_pass (main.c) runs the   *)
(* optimisation passes over them, one after the other.  After inlining and *)
(* localisation the passes are followed on the function the program begins *)
(* with.                                                                   *)
(***************************************************************************)
EXTENDS Dce, FrontEnd, Inline, Localize, Gvn, TreeHeight, Lcm, Osr

CONSTANTS
  Sources,   \* programs: their functions, the last is the first to run
  Plan(_)    \* the passes a program goes through

VARIABLES
  source,
  funcs,    \* the graphs of the other functions, by number
  passes    \* the passes still to run

pipeVars == <<allVars, source, funcs, passes>>

\* The instructions of a function get numbers no other function has.
CONSTANT MaxInsns    \* BOUND on the instructions of a function
Graph(fs, n) ==
  LET p == CfgBuild(GenIR(fs, n)) IN
  [p EXCEPT !.insns = [b \in Block |-> [i \in DOMAIN @[b] |->
     [@[b][i] EXCEPT !.uid = IF @ = 0 THEN 0 ELSE MaxInsns * n + @]]]]
NewNumbered(p, last) ==
  LET q == Numbered(p) IN
  [p EXCEPT !.insns = [b \in Block |-> [i \in DOMAIN @[b] |->
     [@[b][i] EXCEPT !.uid = IF @ = 0 THEN last + q.insns[b][i].uid ELSE @]]]]

PipeInit ==
  /\ source \in Sources /\ passes = Plan(source) /\ funcs = <<>>
  /\ prog = Graph(source, 1) /\ given = prog /\ pc = "clean"
  /\ rest = <<>> /\ changed = FALSE /\ fssa = FALSE
  /\ necessary = {} /\ worklist = {} /\ toSweep = <<>>
  /\ adjvex = [b \in Block |-> Exit]

\* A pass is a function from programs to programs, except dead code elimination
\* and the clean-up at its end.
Pass(name, F(_), then) ==
  /\ pc = "pass" /\ passes # <<>> /\ Head(passes) = name
  /\ \E p \in {Numbered(F(prog))} : prog' = p
  /\ pc' = then /\ passes' = Tail(passes)
  /\ UNCHANGED <<given, source, funcs, cleanupVars, dceVars>>

Same(p) == p
\* cfgbuild: the functions are cleaned up and their loops turned one after the other.
AtMain == Len(funcs) + 1 = Len(source)
RotateLoops ==
  /\ pc = "pass" /\ passes # <<>> /\ Head(passes) = "copy_loop_headers"
  /\ \E p \in {NewNumbered(CopyLoopHeaders(prog), MaxInsns * (Len(source) + Len(funcs) + 1))} :
       IF AtMain THEN /\ prog' = p /\ passes' = Tail(passes)
                      /\ UNCHANGED <<funcs, pc>>
       ELSE /\ funcs' = Append(funcs, p) /\ prog' = Graph(source, Len(funcs) + 2)
            /\ pc' = "clean" /\ UNCHANGED passes
  /\ UNCHANGED <<given, source, cleanupVars, dceVars>>

\* inline_transform and GlobalVariableLocalization change all functions.
Whole == [f \in DOMAIN funcs \cup {Len(source)} |-> IF f = Len(source) THEN prog ELSE funcs[f]]
ProgramPass(name, fs) ==
  /\ pc = "pass" /\ passes # <<>> /\ Head(passes) = name
  /\ prog' = fs[Len(source)] /\ funcs' = [f \in DOMAIN fs \ {Len(source)} |-> fs[f]]
  /\ passes' = Tail(passes)
  /\ UNCHANGED <<given, pc, source, cleanupVars, dceVars>>
InlineFunctions ==
  \E calleeFirst \in BOOLEAN :
    ProgramPass("inline_transform",
      LET fs == InlineTransform(Whole, [n \in 1..Len(source) |-> n], calleeFirst)
      IN [f \in DOMAIN fs |-> Numbered(fs[f])])
LocalizeGlobals ==
  ProgramPass("GlobalVariableLocalization",
    LET fs == GlobalVariableLocalization(Whole, Len(source)) IN [f \in DOMAIN fs |-> Numbered(fs[f])])

IntoSsa == Pass("build_ssa", BuildSsa, "pass")
OutOfSsa == Pass("remove_ssa_form", RemoveSsaForm, "pass")
MergeVersions == Pass("rewrite_out_of_ssa", RewriteOutOfSsa, "pass")
EliminateDeadCode == Pass("perform_ssa_dce", Same, "mark")
PropagateCopies == Pass("copyprop", CopyPropagation, "pass")
NumberValues == Pass("GlobalValueNumbering", GlobalValueNumbering, "pass")
BalanceTrees == Pass("treeheight", TreeHeightReduction, "pass")
UseShifts == Pass("StraightLineStrengthReduce", StraightLineStrengthReduce, "pass")
ReduceOperators == Pass("OSR", OperatorStrengthReduction, "clean")
MoveCode == Pass("LazyCodeMotion", LazyCodeMotion, "clean")

\* perform_ssa_dce or cleanup_cfg is done.
EndPass ==
  /\ pc = "done" /\ pc' = "pass"
  /\ UNCHANGED <<prog, given, cleanupVars, dceVars, source, funcs, passes>>

PipeNext ==
  \/ RotateLoops \/ InlineFunctions \/ LocalizeGlobals \/ IntoSsa \/ OutOfSsa \/ MergeVersions \/ EliminateDeadCode
  \/ NumberValues \/ PropagateCopies \/ MoveCode \/ ReduceOperators
  \/ BalanceTrees \/ UseShifts \/ EndPass
  \/ DceNext /\ UNCHANGED <<source, funcs, passes>>

PipeSpec == PipeInit /\ [][PipeNext]_pipeVars

-----------------------------------------------------------------------------
SourceInputs == [DOMAIN Last(source).params -> Value]
Between == pc = "pass" /\ (passes # <<>> /\ Head(passes) = "copy_loop_headers" => AtMain)
InSsa == \E insn \in ToSet(Code(prog)) : insn.op = "phi"

\* After every pass the program does what its source says, for every input on
\* which the source comes to its end: the same values are shown, then its result.
AsPromised ==
  Between => \A input \in SourceInputs :
    LET promise == Promised(source, input) IN
    promise.how # "stuck" => LET run == RunWith(prog, input, funcs) IN run.halted /\ run.out = promise.out

\* While there are phis every name has one definition, and every use is reached
\* only through it.
SsaKept == Between /\ InSsa => SsaForm(prog)

\* Passes rewrite branches, edges and phis by hand, new blocks included.
GraphKept == Between => EdgesAgree(prog) /\ PhisFit(prog)

\* Moving and numbering calculations never adds one to a way through the function:
\* code motion inserts a calculation only where every way on uses it.
Frugal == {"GlobalValueNumbering", "LazyCodeMotion", "copyprop"}
NeverMoreWork ==
  [][passes' # passes /\ Head(passes) \in Frugal =>
       \A input \in SourceInputs : Promised(source, input).how # "stuck" =>
         RunWith(prog', input, funcs').work =< RunWith(prog, input, funcs).work]_pipeVars

\* compute_local_properties of copyprop.c says a copy is available at the end of
\* its block when calculating it there would give the same value.
CopiesAvailable ==
  Between /\ passes # <<>> /\ Head(passes) = "copyprop" =>
    \A b \in InnerBlocks(prog) : \A i \in DOMAIN prog.insns[b] :
      LET insn == prog.insns[b][i] IN
      insn.uid \in Assignments(prog)
        /\ (\A j \in (i + 1)..Len(prog.insns[b]) :
              prog.insns[b][j].def \notin ToSet(Operands(insn)))
        => insn.uid \in Computed(prog, b, Assignments(prog))
=============================================================================
