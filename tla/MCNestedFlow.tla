---------------------------- MODULE MCNestedFlow ----------------------------
EXTENDS NestedFlow

Of(kind, inner) == [Plain EXCEPT !.kind = kind, !.inner = inner]
Flow(modules, failure_module) ==
    [modules |-> modules, failure_module |-> failure_module, preprocessor |-> FALSE]
Always == 0 .. MaxItems

\* looping: a for loop that is retried, under a failure module, with a body that may
\* stop.  while: a loop that skips failures and that a predicate ends, then a step.
\* branching: a branch that may be skipped and one that continues after an error, with
\* stop_after_all_iters_if.  choosing: an empty default or a nested loop, then a
\* sub-flow with a failure module of its own.  webhook: a preprocessor, then a sub-flow.
MCFlows ==
    [each      |-> Flow(<<[Plain EXCEPT !.stop_after_if = "skip"]>>, TRUE),
     looping   |-> Flow(<<[Of("forloopflow", <<"each">>) EXCEPT !.retry = 1]>>, TRUE),
     while     |-> Flow(<<[Of("whileloopflow", <<"script">>)
                             EXCEPT !.stop_after_if = "stop", !.skip = Always],
                          Plain>>, FALSE),
     left      |-> Flow(<<[Plain EXCEPT !.stop_after_if = "error"]>>, FALSE),
     right     |-> Flow(<<[Plain EXCEPT !.continue_on_error = TRUE, !.retry = 1], Plain>>,
                        FALSE),
     branching |-> Flow(<<[Of("branchall", <<"left", "right">>)
                             EXCEPT !.skip = {0}, !.stop_after_all_iters_if = "stop"],
                          Plain>>, FALSE),
     nothing   |-> Flow(<<>>, FALSE),
     nested    |-> Flow(<<[Of("forloopflow", <<"left">>) EXCEPT !.stop_after_if = "stop"]>>,
                        FALSE),
     handled   |-> Flow(<<Plain>>, TRUE),
     webhook   |-> [Flow(<<Of("flow", <<"handled">>)>>, FALSE) EXCEPT !.preprocessor = TRUE],
     choosing  |-> Flow(<<Of("branchone", <<"nothing", "nested">>),
                          [Of("flow", <<"handled">>)
                             EXCEPT !.skip_if = TRUE, !.stop_after_if = "stop"],
                          Plain>>, FALSE)]
MCRoots == {"looping", "while", "branching", "choosing", "webhook"}
=============================================================================
