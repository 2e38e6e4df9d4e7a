----------------------------- MODULE MCGatherer -----------------------------
(* Instances of Gatherer for TLC. *)
EXTENDS Gatherer

Desktop == [wine |-> FALSE, monitors |-> 2, gpus |-> 1, drives |-> 1, level |-> 11,
            verdicts |-> {FALSE}, hypervisor |-> "", guest |-> FALSE, forgets |-> TRUE,
            process |-> 64, os |-> 32, cpu |-> 32]

\* An ordinary machine; the same under Wine; one that measures near the
\* threshold; a Hyper-V guest and the root partition; another hypervisor, with
\* a 32-bit build on a 64-bit system; no displays and a COM that remembers.
MCMachines ==
  { Desktop,
    [Desktop EXCEPT !.wine = TRUE, !.process = 32, !.os = 64],
    [Desktop EXCEPT !.verdicts = BOOLEAN, !.process = 32],
    [Desktop EXCEPT !.hypervisor = "Microsoft Hv", !.guest = TRUE, !.verdicts = {TRUE}],
    [Desktop EXCEPT !.hypervisor = "Microsoft Hv", !.verdicts = BOOLEAN],
    [Desktop EXCEPT !.hypervisor = "KVMKVMKVM", !.process = 32, !.os = 64],
    [Desktop EXCEPT !.monitors = 0, !.gpus = 0, !.level = 0, !.forgets = FALSE,
                    !.process = 32, !.cpu = 64] }
=============================================================================
