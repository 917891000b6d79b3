----------------------------- MODULE MCDeployRun -----------------------------
EXTENDS DeployRun

\* Two lines to one pipe show its order, one to the other the race of the pumps.
MCMaxLines == [p \in {"stdout", "stderr"} |-> IF p = "stdout" THEN 2 ELSE 1]
==============================================================================
