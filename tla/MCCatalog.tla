---- MODULE MCCatalog ----
EXTENDS Catalog

Connections2 == {"pm", "key"}
Types2 == [c \in Connections2 |-> IF c = "pm" THEN "platform_managed" ELSE "byok"]
Pools3 == {[key |-> 1, regions |-> {"*"}, priority |-> 9],
           [key |-> 2, regions |-> {"eu"}, priority |-> 1],
           [key |-> 3, regions |-> {"us"}, priority |-> 9]}
Owner == [a \in {"owner", "viewer"} |->
            IF a = "owner" THEN {"connection_create", "connection_archive", "platform_managed_models",
                                 "catalog_refresh", "binding_update", "binding_remove"}
                           ELSE {}]
Interchangeable == Permutations(Workers) \cup Permutations(Refreshes)
====
