-------------------------- MODULE MCPrivatePayments --------------------------
EXTENDS PrivatePayments
=============================================================================
