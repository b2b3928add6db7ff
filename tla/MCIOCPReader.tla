---- MODULE MCIOCPReader ----
EXTENDS IOCPReader, TLC
CONSTANTS r1, r2, r3, w1, w2
====
