------------------------------ MODULE MCDelivery ------------------------------
EXTENDS DeliveryProperties, TLC
=============================================================================
