--------------------------- MODULE MCCPUFeatures ---------------------------
(* Instances of CPUFeatures for TLC. *)
EXTENDS CPUFeatures

\* SSE3; HLE; PREFETCHWT1; LZCNT or ABM; 64 bits.  Leaves 5 and 6 hold bits where a
\* reader of leaf 7 or of the extended leaf expects HLE, LZCNT and 64 bits; and every
\* core has CMOV, which is never listed.
Features == {<<Basic(1), "ecx", 0>>, <<Basic(7), "ebx", 4>>, <<Basic(7), "ecx", 0>>,
             <<Ext(1), "ecx", 5>>, X64}
Others   == {<<Basic(n), "ebx", 4>> : n \in {5, 6}}
            \cup {<<Basic(n), "ecx", 5>> : n \in {5, 6}}
            \cup {<<Basic(n), "edx", 29>> : n \in {5, 6}}
            \cup {<<Basic(1), "edx", 15>>}

Of(bits, basic, ext) ==
  {x \in bits : x[1][2] <= IF x[1][1] = "basic" THEN basic ELSE ext}

\* Every processor with these highest leaves whose cores are one or two: the
\* features of the second are a subset of the first's, or the first has none.
MCCPUs ==
  UNION {{[vendor |-> v, basic |-> n, extended |-> e,
           cores |-> {[brand |-> "big", model |-> 1, stepping |-> 2, bits |-> Of(a \cup Others, n, e)],
                      [brand |-> IF m = 1 THEN "big" ELSE "small", model |-> m,
                       stepping |-> 2, bits |-> Of((IF m = 1 THEN a ELSE b) \cup Others, n, e)]}] :
            a \in SUBSET Features, b \in {{}, {X64}, Features}, m \in {1, 3}} :
          v \in Vendors, n \in {5, 6, 7}, e \in {0, 1, 3, 4}}
=============================================================================
