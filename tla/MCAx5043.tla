------------------------------ MODULE MCAx5043 ------------------------------
EXTENDS Ax5043
=============================================================================
