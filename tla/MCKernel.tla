------------------------------ MODULE MCKernel ------------------------------
EXTENDS Kernel, TLC

CONSTANTS a, b, c

Chain == (a :> {{}}) @@ (b :> {{a}})
KindAB == (a :> "Service") @@ (b :> "Job")
ReadyAB == (a :> "Reported") @@ (b :> "Immediate")
RestartAB == (a :> "OnFailure") @@ (b :> "Never")
Each2 == {{a}, {b}, {a,b}}
None2 == [t \in Tasks |-> {}]
(* Every reaction of the property harness, kernel_prop.rs. *)
Reactions == [x \in Sent |->
  {<<>>, <<"Started">>, <<"Started", "Ready">>, <<"Started", "StoppedOk">>,
   <<"StoppedOk">>, <<"StoppedErr">>}]

Kind3 == (a :> "Service") @@ (b :> "Job") @@ (c :> "Service")
Ready3 == (a :> "Reported") @@ (b :> "Immediate") @@ (c :> "Immediate")
Restart3 == (a :> "OnFailure") @@ (b :> "Never") @@ (c :> "Always")
Dep3 == (a :> {{}}) @@ (b :> {{a}}) @@ (c :> {{a,b}})
BC3 == {{b},{c}}
SilentReplies == [x \in Sent |-> {<<>>}]

Jobs == [t \in Tasks |-> "Job"]
Immediate == [t \in Tasks |-> "Immediate"]
Never == [t \in Tasks |-> "Never"]
Free == [t \in Tasks |-> {{}}]
BHearsA == (a :> {b}) @@ (b :> {})
ExitOnNotify == [SilentReplies EXCEPT !["Msg"] = {<<>>, <<"StoppedOk">>}]

View ==
  <<graph, state, killed, intent, cache, counters, loop, dirty, effects,
    {<<tm.task, tm.purpose>> : tm \in {x \in timers : x.task \in registered /\ epoch[x.task] = x.epoch}},
    {tm.task : tm \in {x \in timers : x.task \in registered /\ epoch[x.task] # x.epoch}}>>
=============================================================================
