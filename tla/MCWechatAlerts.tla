--------------------------- MODULE MCWechatAlerts ---------------------------
\* WechatAlerts on one phone, with one profile of two notifications, for TLC.
EXTENDS WechatAlerts
=============================================================================
