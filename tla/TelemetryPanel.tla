--------------------------- MODULE TelemetryPanel ---------------------------
(***************************************************************************)
(* src/components/TelemetryPanel.cpp: the table of the latest telemetry    *)
(* values and the CSV file it is saved to, one row per frame.  The columns *)
(* are chosen when saving starts.  Of the file only the last header line   *)
(* and the last row are kept, of an ImGui window only its buttons.         *)
(***************************************************************************)
EXTENDS Naturals, Sequences, FiniteSets, SequencesExt, Maps

CONSTANTS
  Keys,      \* telemetry keys
  Values,    \* their values
  MaxQueue   \* bound: frames waiting in TelemetryConsumer

VARIABLES
  attached,      \* ControlPanel's isEnable
  queue,         \* TelemetryConsumer's queue of [key, value]
  telemetryMap,
  dataMap,       \* the graphs' keys: nothing fills it, graphData is a comment
  savingFile,
  csvHeaders,
  header,        \* the last header line of the file
  row,           \* the last row under it, <<>> before the first
  knownAtSave    \* the keys in the table when saving started

file == <<header, row, knownAtSave>>
vars == <<attached, queue, telemetryMap, dataMap, savingFile, csvHeaders, file>>

(* start: attached                                                         *)
Start ==
  /\ ~attached /\ attached' = TRUE
  /\ telemetryMap' = EmptyMap
  /\ UNCHANGED <<queue, dataMap, savingFile, csvHeaders, file>>

(* stop: detached, with the consumer drained by the frame before, as       *)
(* Frame.tla shows of the loop                                             *)
Stopped ==
  /\ attached /\ attached' = FALSE
  /\ dataMap' = {} /\ savingFile' = FALSE
  /\ csvHeaders' = <<>> /\ telemetryMap' = EmptyMap
  /\ UNCHANGED <<queue, file>>

Stop == queue = <<>> /\ Stopped

(* TelemetryConsumer::consume, while attached                              *)
Consumed(k, v) ==
  /\ Len(queue) < MaxQueue
  /\ queue' = Append(queue, [key |-> k, value |-> v])
  /\ UNCHANGED <<attached, telemetryMap, dataMap, savingFile, csvHeaders, file>>

Consume(k, v) == attached /\ Consumed(k, v)

(* render, first half: the table takes the last value of every key, and if *)
(* a file is open a row is written, "-1" where the table lacks a column.   *)
LastOf(k) == SelectLastInSeq(queue, LAMBDA f : f.key = k)

Table_First ==
  Over(telemetryMap, [k \in {queue[j].key : j \in DOMAIN queue} |-> queue[LastOf(k)].value])
Table ==
  Over([k \in {queue[j].key : j \in DOMAIN queue} |-> queue[LastOf(k)].value], telemetryMap)

Field(h) == IF h \in DOMAIN Table THEN Table[h] ELSE "-1"

Row ==
  [k \in DOMAIN csvHeaders |-> IF k = 1 THEN "time" ELSE Field(csvHeaders[k])]

Drained_One == IF queue = <<>> THEN <<>> ELSE Tail(queue)
Drained == <<>>

Draw ==
  /\ queue' = Drained
  /\ telemetryMap' = Table
  /\ UNCHANGED <<attached, dataMap>>

Write == row' = IF savingFile THEN Row ELSE row

Render == Draw /\ Write /\ UNCHANGED <<savingFile, csvHeaders, header, knownAtSave>>

StopSaving ==
  /\ savingFile /\ savingFile' = FALSE
  /\ Draw /\ Write /\ UNCHANGED <<csvHeaders, header, knownAtSave>>

(* Save File clears the columns before it opens the file, which may fail.  *)
Columns == <<"Time">> \o SetToSeq(dataMap)

HeadersAtSave_Kept == csvHeaders \o Columns
HeadersAtSave == Columns

SaveFile ==
  /\ ~savingFile /\ savingFile' = TRUE
  /\ csvHeaders' = HeadersAtSave /\ header' = Columns
  /\ knownAtSave' = DOMAIN Table
  /\ Draw /\ row' = <<>>

SaveFails ==
  /\ ~savingFile
  /\ csvHeaders' = <<>>
  /\ Draw /\ Write /\ UNCHANGED <<savingFile, header, knownAtSave>>

-----------------------------------------------------------------------------
Init ==
  /\ attached = FALSE /\ queue = <<>> /\ telemetryMap = EmptyMap /\ dataMap = {}
  /\ savingFile = FALSE /\ csvHeaders = <<>>
  /\ header = <<>> /\ row = <<>> /\ knownAtSave = {}

Next ==
  \/ Start \/ Stop
  \/ \E k \in Keys, v \in Values : Consume(k, v)
  \/ Render \/ StopSaving \/ SaveFile \/ SaveFails

Spec == Init /\ [][Next]_vars

-----------------------------------------------------------------------------
(* Every row has the columns of the header line above it, whatever was     *)
(* saved, stopped, detached or failed to open before.                      *)
RowFitsHeader == row # <<>> => Len(row) = Len(header)

(* The table shows of every key the value that was received last, also     *)
(* when one frame brings several.                                          *)
LatestShown ==
  [][\A k \in DOMAIN queue :
       (queue' = <<>> /\ \A j \in (k + 1)..Len(queue) : queue[j].key # queue[k].key)
         => telemetryMap'[queue[k].key] = queue[k].value]_vars

(* The README's ToDo list strikes "Save Data to File" (line 10) as done: a *)
(* row holds the value of every key that was in the table when saving      *)
(* started and still is.                                                   *)
RowHoldsData ==
  savingFile /\ row # <<>> =>
    \A k \in knownAtSave \intersect DOMAIN telemetryMap :
      \E c \in DOMAIN row : row[c] = telemetryMap[k]
=============================================================================
