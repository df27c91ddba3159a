--------------------------- MODULE MCBatchProcessor ---------------------------
(***************************************************************************)
(* BatchProcessor for TLC: the processor of logs and that of metrics.      *)
(* One more item than a batch is enough to fill the channel of the logs;   *)
(* the meter, without items, makes Flush and Close take two stages.        *)
(***************************************************************************)
EXTENDS BatchProcessor, TLC

CONSTANTS logger, meter

Both == <<logger, meter>>
AllLogs == [i \in Item |-> logger]

===============================================================================
