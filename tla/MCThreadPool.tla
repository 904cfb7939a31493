----------------------------- MODULE MCThreadPool -----------------------------
(* Three workers: one can finish while another sleeps and a third is awake.  *)
EXTENDS ThreadPool

CONSTANTS t1, t2, t3, w1, w2, w3

ThreeTasks == {t1, t2, t3}
ThreeWorkers == {w1, w2, w3}
================================================================================
