---------------------------- MODULE MCCheckoutLoop ----------------------------
EXTENDS CheckoutLoop
=============================================================================
