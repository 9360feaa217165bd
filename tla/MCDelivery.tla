----------------------------- MODULE MCDelivery -----------------------------
EXTENDS Delivery
MCkinds == <<{1}, {1, 3}, {1, 3}>>
=============================================================================
