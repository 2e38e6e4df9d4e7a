----------------------------- MODULE CommandLine -----------------------------
(***************************************************************************)
(* The command line program (src/main.cpp): Execute and Wait, run by       *)
(* several processes on one machine.  A report goes to a file named after  *)
(* the machine and the second of its time stamp, to the console, and the   *)
(* raw timings to a second file.  Nothing but the opening of a file is     *)
(* looked at: a stream that cannot write ignores what follows and nobody   *)
(* asks.  Two processes may come to the same name, at the same second or   *)
(* when a local hour is repeated.                                          *)
(***************************************************************************)
EXTENDS Integers

CONSTANTS
  Procs,      \* runs of the program
  Seconds,    \* the time stamps there are, as TimestampToString tells them
  MaxFaults   \* bound: files that cannot be opened, writes that are lost, exceptions

VARIABLES
  doing,      \* doing[p]: what p does next
  stamp,      \* stamp[p]: the second p's report was gathered in
  files,      \* files[s]: the parts of the file of second s, by who wrote them
  console,    \* console[p]: the parts of the report p has printed
  lost,       \* lost[p]: the streams of p that a part of the report was lost on
  code,       \* code[p]: the exit code
  faults      \* how many have happened

cliVars == <<doing, stamp, files, console, lost, code, faults>>

ASSUME CommandLineAssumption ==
  Procs # {} /\ Seconds # {} /\ MaxFaults \in Nat

\* A report is two parts long, so that another process can come in between.
Parts == {1, 2}
Streams == {"file", "console"}
Nobody == "nobody"
NoFile == [k \in Parts |-> Nobody]

CliInit ==
  /\ doing = [p \in Procs |-> "retrieve"]
  /\ stamp \in [Procs -> Seconds]
  /\ files = [s \in Seconds |-> NoFile]
  /\ console = [p \in Procs |-> {}]
  /\ lost = [p \in Procs |-> {}]
  /\ code = [p \in Procs |-> "none"]
  /\ faults = 0

Goes(p, from, to) == doing[p] = from /\ doing' = [doing EXCEPT ![p] = to]
Fault == faults < MaxFaults /\ faults' = faults + 1
Loses(p, stream) == Fault /\ lost' = [lost EXCEPT ![p] = @ \cup {stream}]

\* RetrievePDMData.
Retrieve(p) ==
  /\ Goes(p, "retrieve", "open")
  /\ UNCHANGED <<stamp, files, console, lost, code, faults>>

\* outfile.open with std::ios::out: whatever the file held is gone.
OpenFile(p) ==
  /\ Goes(p, "open", "file1")
  /\ files' = [files EXCEPT ![stamp[p]] = NoFile]
  /\ UNCHANGED <<stamp, console, lost, code, faults>>

\* Mutation: a file that cannot be opened ends the program.
GiveUp(p) ==
  /\ Goes(p, "open", "timings")
  /\ Loses(p, "file")
  /\ UNCHANGED <<stamp, files, console, code>>

\* "Error: Could not open output file!", and on to the console.
OpenFails(p) ==
  /\ Goes(p, "open", "console1")
  /\ Loses(p, "file")
  /\ UNCHANGED <<stamp, files, console, code>>

\* Output(data, outfile), each part at p's own place in the file; a failed write
\* makes the stream ignore the rest.
WriteFile(p, k) ==
  /\ Goes(p, IF k = 1 THEN "file1" ELSE "file2", IF k = 1 THEN "file2" ELSE "console1")
  /\ \/ /\ "file" \notin lost[p]
        /\ files' = [files EXCEPT ![stamp[p]][k] = p]
        /\ UNCHANGED <<lost, faults>>
     \/ "file" \notin lost[p] /\ Loses(p, "file") /\ UNCHANGED files
     \/ "file" \in lost[p] /\ UNCHANGED <<files, lost, faults>>
  /\ UNCHANGED <<stamp, console, code>>

\* Output(data, std::cout), a stream that fails like the other: its reader may have
\* gone, or the disk it is redirected to may be full.
WriteConsole(p, k) ==
  /\ Goes(p, IF k = 1 THEN "console1" ELSE "console2", IF k = 1 THEN "console2" ELSE "timings")
  /\ \/ /\ "console" \notin lost[p]
        /\ console' = [console EXCEPT ![p] = @ \cup {k}]
        /\ UNCHANGED <<lost, faults>>
     \/ "console" \notin lost[p] /\ Loses(p, "console") /\ UNCHANGED console
     \/ "console" \in lost[p] /\ UNCHANGED <<console, lost, faults>>
  /\ UNCHANGED <<stamp, files, code>>

\* OutputExecutionTimings, to a file of its own or to none.
Timings(p) ==
  /\ Goes(p, "timings", "wait")
  /\ code' = [code EXCEPT ![p] = "EXIT_SUCCESS"]
  /\ UNCHANGED <<stamp, files, console, lost, faults>>

\* catch (std::exception&), from wherever strings are made.
Catch(p) ==
  /\ doing[p] \notin {"wait", "gone"}
  /\ Fault
  /\ doing' = [doing EXCEPT ![p] = "wait"]
  /\ code' = [code EXCEPT ![p] = "EXIT_FAILURE"]
  /\ UNCHANGED <<stamp, files, console, lost>>

\* Wait: whatever has happened, for the Enter key.
Wait(p) ==
  /\ Goes(p, "wait", "gone")
  /\ UNCHANGED <<stamp, files, console, lost, code, faults>>

CliNext ==
  \E p \in Procs :
    \/ Retrieve(p) \/ OpenFile(p) \/ OpenFails(p)
    \/ \E k \in Parts : WriteFile(p, k) \/ WriteConsole(p, k)
    \/ Timings(p) \/ Catch(p) \/ Wait(p)

CliSpec == CliInit /\ [][CliNext]_cliVars

-----------------------------------------------------------------------------
\* EXIT_SUCCESS is the word of a process none of whose steps threw, no more: its
\* report is whole on the console unless the console itself lost a part, whatever
\* became of the file; and whole in a file of its own unless the file could not be
\* opened or lost a part, whatever became of the console, or another process had
\* the same second.
SuccessUnlessLost ==
  \A p \in Procs : code[p] = "EXIT_SUCCESS" =>
    /\ console[p] = Parts \/ "console" \in lost[p]
    /\ \/ files[stamp[p]] = [k \in Parts |-> p]
       \/ "file" \in lost[p]
       \/ \E q \in Procs \ {p} : stamp[q] = stamp[p] /\ doing[q] # "retrieve"
=============================================================================
