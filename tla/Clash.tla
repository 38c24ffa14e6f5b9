---- MODULE Clash ----
EXTENDS SchemaProofs
====
