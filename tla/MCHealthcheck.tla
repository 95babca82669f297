--------------------------- MODULE MCHealthcheck ---------------------------
(* A few ports, passwords that look like them, and every kind of wrapper.  *)
EXTENDS Healthcheck, TLC

MCAsInt == ("8000" :> 8000) @@ ("9600" :> 9600) @@ (" 9600" :> 9600) @@
           ("10011" :> 10011) @@ ("70000" :> 70000)
MCAsTenths == ("5.0" :> 50) @@ ("5" :> 50) @@ ("0" :> 0)
MCUpper == ("INFO" :> "INFO") @@ ("info" :> "INFO") @@ ("loud" :> "LOUD")
MCDigits == (8000 :> "8000") @@ (9600 :> "9600")
MCScripts == {"/app/app.py", "export METRICS_PORT; python /app/app.py"}

MCFlags == {
  <<>>,
  <<Flag("metricsport", "9600")>>,
  <<Flag("metricsport", "9600"), Flag("ts3password", "9600"), Flag("ts3password", "x")>>,
  <<Flag("metricsport", " 9600"), Flag("loglevel", "info")>>,
  <<Flag("metricsport", "70000"), Flag("pollinterval", "5"), Flag("loglevel", "loud")>>,
  <<Flag("metricsport", "70000")>>,
  <<Word("serve")>> }
MCWrappedFlags == {flags \in MCFlags : Len(flags) = 3}
MCOthers == {<<Flag("metricsport", "9600")>>}

Unset == [option \in {} |-> ""]
MCEnvironments == {
  Unset,
  "metricsport" :> "9600" @@ "ts3password" :> "9600",
  "loglevel" :> "INFO" @@ "pollinterval" :> "5.0" @@ "metricsport" :> "8000" @@ "ts3host" :> "ts" }

Exporter(flags) ==
  [wrapper |-> "none", text |-> "", execs |-> FALSE, flags |-> flags, sets |-> Unset]
MCCommands ==
  {Exporter(flags) : flags \in MCFlags} \cup
  {[Exporter(flags) EXCEPT !.wrapper = "init"] : flags \in MCWrappedFlags} \cup
  {[wrapper |-> "shell", text |-> text, execs |-> execs, flags |-> flags, sets |-> sets] :
     text \in {"python /app/app.py $FLAGS"}, execs \in BOOLEAN, flags \in MCWrappedFlags,
     sets \in {Unset, "metricsport" :> "9600"}} \cup
  {[wrapper |-> "shell", text |-> "export METRICS_PORT; python /app/app.py",
    execs |-> execs, flags |-> <<>>, sets |-> sets] :
     execs \in BOOLEAN, sets \in {Unset, "metricsport" :> "9600"}}
=============================================================================
