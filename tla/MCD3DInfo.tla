------------------------------ MODULE MCD3DInfo ------------------------------
(* Instances of D3DInfo for TLC: machines with no adapter, a laptop with two  *)
(* adapters and the primary monitor on the second, the same adapter listed    *)
(* twice, the basic render driver, a mirrored desktop, and outputs that do    *)
(* not implement IDXGIOutput6.                                                *)
EXTENDS D3DInfo, TLC

Card(d, l11, l12, outs) ==
  [desc |-> d, basic |-> FALSE, level |-> [d3d11 |-> l11, d3d12 |-> l12],
   outputs |-> outs]
Basic == [desc |-> "basic", basic |-> TRUE, level |-> [d3d11 |-> 9, d3d12 |-> 9],
          outputs |-> <<>>]
Modern(p) == [primary |-> p, modern |-> TRUE]
Legacy(p) == [primary |-> p, modern |-> FALSE]

Headless == <<Basic>>
Laptop   == <<Card("igpu", 2, 1, <<Modern(FALSE), Modern(FALSE)>>), Basic,
              Card("gpu", 2, 3, <<Modern(FALSE), Modern(TRUE), Modern(FALSE)>>)>>
Twin     == <<Card("gpu", 3, 0, <<Modern(TRUE)>>),
              Card("gpu", 0, 1, <<Modern(FALSE)>>), Card("igpu", 1, 1, <<>>)>>
Mirrored == <<Card("gpu", 1, 1, <<Modern(TRUE), Modern(FALSE), Modern(TRUE)>>)>>
Old      == <<Card("gpu", 1, 0, <<Legacy(FALSE), Modern(TRUE), Legacy(FALSE)>>)>>

AllTopologies == {<<>>, Headless, Laptop, Twin, Mirrored, Old}
OldOnly       == {Old}
=============================================================================
