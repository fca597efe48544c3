----------------------------- MODULE MCStartup -----------------------------
(* An instance of Startup for TLC. *)
EXTENDS Startup

\* A switch and the filter of messages.
SmallCatalogue == <<"TRACE_WEB_SOCKET", "FILTER_FOR_TRACING">>
OneSwitch == {"TRACE_WEB_SOCKET"}

CompleteEnv ==
    [testing |-> "no", traceDisabled |-> "no", override |-> "yes", given |-> Vars]

\* Complete; without the filter; empty; empty and without tracing; a test.
SomeEnvironments ==
    {CompleteEnv,
     [CompleteEnv EXCEPT !.given = OneSwitch],
     [CompleteEnv EXCEPT !.given = {}],
     [CompleteEnv EXCEPT !.given = {}, !.traceDisabled = "yes", !.override = "no"],
     [CompleteEnv EXCEPT !.given = {}, !.testing = "yes"]}
=============================================================================
