---- MODULE MCAtinyReport ----
EXTENDS AtinyReport
====
