---------------------------- MODULE MCIconnectDmi ----------------------------
(* The card of the QDMA, whose only target is a memory, and the CDX stub   *)
EXTENDS IconnectDmi

FirstOnly(initiators) == {0}
T == INSTANCE Tops WITH Active <- FirstOnly

MCMachines == {T!QdmaCard, T!CdxStub}
=============================================================================
