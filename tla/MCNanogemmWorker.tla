-------------------------- MODULE MCNanogemmWorker --------------------------
EXTENDS NanogemmWorker
MCMrs == 1 .. 8
MCNrs == 1 .. 30
MCFollowed == {[mr |-> 2, nr |-> 12, simd_width |-> 512, assoc |-> 8, l1 |-> 64]}
MCCoreSettings ==
  {[simd_lat |-> 4, simd_count |-> 2, simd_phreg_count |-> 48, ld_count |-> 2, st_count |-> 1,
    iq_size |-> 24, rob_size |-> 64, decode_width |-> 8, commit_width |-> 8, fetch_buf_size |-> 64]}
=============================================================================
