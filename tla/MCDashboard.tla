----------------------------- MODULE MCDashboard -----------------------------
EXTENDS Dashboard

CONSTANTS s1, s2, s3

MCSlot == {s1, s2, s3}
=============================================================================
