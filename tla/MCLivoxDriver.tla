----------------------------- MODULE MCLivoxDriver -----------------------------
\* A ring of two slots whose indices wrap after four.
EXTENDS LivoxDriver
=============================================================================
