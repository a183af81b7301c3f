---- MODULE MCAuthClient ----
EXTENDS AuthClient

MCCallers == {"refresh", "signin", "logout", "orphan"}
====
