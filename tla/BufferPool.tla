----------------------------- MODULE BufferPool -----------------------------
(***************************************************************************)
(* The receive path of one board: the pool of buffers of spi.c and the     *)
(* queues a buffer goes through, from the SPI slave to ring_link_process,  *)
(* from there to the internal or the netif task, and back to the pool.     *)
(* Queues hold pointers, so a buffer that is lost never comes back and one *)
(* that is in two places is overwritten while it is read.                  *)
(***************************************************************************)
EXTENDS Naturals, Sequences, FiniteSets, SequencesExt

CONSTANTS
  Buffers,            \* buffer_pool (NUM_BUFFERS = 8)
  InternalQueueSize,  \* RING_LINK_INTERNAL_QUEUE_SIZE (10)
  NetifQueueSize,     \* RING_LINK_NETIF_QUEUE_SIZE (40)
  MaxPackets          \* bound: packets received

NUM_BUFFERS == Cardinality(Buffers)
NoBuffer == "none"

ASSUME BuffersAssumption == IsFiniteSet(Buffers) /\ NoBuffer \notin Buffers
ASSUME SizesAssumption == /\ InternalQueueSize \in Nat
                          /\ NetifQueueSize \in Nat
                          /\ MaxPackets \in Nat

VARIABLES
  free_buf_queue, spi_rx_queue,   \* spi.c
  internal_queue, netif_queue,    \* ring_link_internal.c, ring_link_netif.c
  spi,       \* the buffer of the SPI slave transaction that is waiting
  process,   \* the buffer ring_link_process works on
  internal,  \* the buffer the internal task works on
  netif,     \* the buffer the netif task works on
  payload,   \* what the buffers contain: [kind, seq]
  received,  \* history: number of packets received
  handled    \* history: packets the internal and netif tasks finished

pool   == <<free_buf_queue, spi_rx_queue, spi>>
queues == <<internal_queue, netif_queue>>
poolvars == <<free_buf_queue, spi_rx_queue, internal_queue, netif_queue, spi,
              process, internal, netif, payload, received, handled>>

\* internal and netif payloads; broken ones have a bad checksum or type.
Kinds == {"internal", "netif", "broken"}

PoolInit ==
  /\ free_buf_queue = SetToSeq(Buffers)
  /\ spi_rx_queue = <<>>
  /\ internal_queue = <<>>
  /\ netif_queue = <<>>
  /\ spi = NoBuffer
  /\ process = NoBuffer
  /\ internal = NoBuffer
  /\ netif = NoBuffer
  /\ payload = [b \in Buffers |-> [kind |-> "broken", seq |-> 0]]
  /\ received = 0
  /\ handled = <<>>

\* xQueueSend with no wait to free_buf_queue, whose length is NUM_BUFFERS
FreeRxBuffer(b) ==
  free_buf_queue' = IF Len(free_buf_queue) < NUM_BUFFERS
                    THEN Append(free_buf_queue, b) ELSE free_buf_queue

----------------------------------------------------------------------------
(* spi.c                                                                   *)

\* spi_polling_task: take a free buffer and start a slave transaction.
Poll ==
  /\ spi = NoBuffer
  /\ free_buf_queue # <<>>
  /\ spi' = Head(free_buf_queue)
  /\ free_buf_queue' = Tail(free_buf_queue)
  /\ UNCHANGED <<spi_rx_queue, queues, process, internal, netif, payload,
                 received, handled>>

\* The transaction could not be queued: the buffer goes back.
PollFails ==
  /\ spi # NoBuffer
  /\ FreeRxBuffer(spi)
  /\ spi' = NoBuffer
  /\ UNCHANGED <<spi_rx_queue, queues, process, internal, netif, payload,
                 received, handled>>

\* Mutant: the buffer is freed as well as passed on.
Receive_FreesToo(k) ==
  /\ spi # NoBuffer
  /\ received < MaxPackets
  /\ received' = received + 1
  /\ payload' = [payload EXCEPT ![spi] = [kind |-> k, seq |-> received']]
  /\ spi_rx_queue' = Append(spi_rx_queue, spi)
  /\ FreeRxBuffer(spi)
  /\ spi' = NoBuffer
  /\ UNCHANGED <<queues, process, internal, netif, handled>>

\* A packet arrives and spi_post_trans_cb queues it, or frees the buffer.
Receive(k) ==
  /\ spi # NoBuffer
  /\ received < MaxPackets
  /\ received' = received + 1
  /\ payload' = [payload EXCEPT ![spi] = [kind |-> k, seq |-> received']]
  /\ IF Len(spi_rx_queue) < NUM_BUFFERS
     THEN /\ spi_rx_queue' = Append(spi_rx_queue, spi)
          /\ UNCHANGED free_buf_queue
     ELSE /\ FreeRxBuffer(spi)
          /\ UNCHANGED spi_rx_queue
  /\ spi' = NoBuffer
  /\ UNCHANGED <<queues, process, internal, netif, handled>>

----------------------------------------------------------------------------
(* ring_link_process_task and process_payload                              *)

Fetch ==
  /\ process = NoBuffer
  /\ spi_rx_queue # <<>>
  /\ process' = Head(spi_rx_queue)
  /\ spi_rx_queue' = Tail(spi_rx_queue)
  /\ UNCHANGED <<free_buf_queue, spi, queues, internal, netif, payload,
                 received, handled>>

\* CRC mismatch or unknown type
DropBroken ==
  /\ process # NoBuffer
  /\ payload[process].kind = "broken"
  /\ FreeRxBuffer(process)
  /\ process' = NoBuffer
  /\ UNCHANGED <<spi_rx_queue, spi, queues, internal, netif, payload,
                 received, handled>>

InternalRoom == Len(internal_queue) < InternalQueueSize
NetifRoom == Len(netif_queue) < NetifQueueSize

QueueInternal ==
  /\ process # NoBuffer
  /\ payload[process].kind = "internal"
  /\ InternalRoom
  /\ internal_queue' = Append(internal_queue, process)
  /\ process' = NoBuffer
  /\ UNCHANGED <<pool, netif_queue, internal, netif, payload, received,
                 handled>>

QueueNetif ==
  /\ process # NoBuffer
  /\ payload[process].kind = "netif"
  /\ NetifRoom
  /\ netif_queue' = Append(netif_queue, process)
  /\ process' = NoBuffer
  /\ UNCHANGED <<pool, internal_queue, internal, netif, payload, received,
                 handled>>

\* The queue was full for 100 ms: drop the packet.
Overflows ==
  /\ process # NoBuffer
  /\ \/ payload[process].kind = "internal" /\ ~InternalRoom
     \/ payload[process].kind = "netif" /\ ~NetifRoom

\* Mutant: the error path forgets the buffer.
DropFull_Leak ==
  /\ Overflows
  /\ process' = NoBuffer
  /\ UNCHANGED <<pool, queues, internal, netif, payload, received, handled>>

DropFull ==
  /\ Overflows
  /\ FreeRxBuffer(process)
  /\ process' = NoBuffer
  /\ UNCHANGED <<spi_rx_queue, spi, queues, internal, netif, payload,
                 received, handled>>

----------------------------------------------------------------------------
(* ring_link_internal_process_task and ring_link_netif_process_task        *)

InternalStart ==
  /\ internal = NoBuffer
  /\ internal_queue # <<>>
  /\ internal' = Head(internal_queue)
  /\ internal_queue' = Tail(internal_queue)
  /\ UNCHANGED <<pool, netif_queue, process, netif, payload, received,
                 handled>>

\* The handler returns (module RingBroadcast), with an error or not.
InternalDone ==
  /\ internal # NoBuffer
  /\ handled' = Append(handled, payload[internal])
  /\ FreeRxBuffer(internal)
  /\ internal' = NoBuffer
  /\ UNCHANGED <<spi_rx_queue, spi, queues, process, netif, payload, received>>

NetifStart ==
  /\ netif = NoBuffer
  /\ netif_queue # <<>>
  /\ netif' = Head(netif_queue)
  /\ netif_queue' = Tail(netif_queue)
  /\ UNCHANGED <<pool, internal_queue, process, internal, payload, received,
                 handled>>

\* Mutant: the buffer is not freed.
NetifDone_Leak ==
  /\ netif # NoBuffer
  /\ handled' = Append(handled, payload[netif])
  /\ netif' = NoBuffer
  /\ UNCHANGED <<pool, queues, process, internal, payload, received>>

\* The packet was copied to a pbuf, or discarded.
NetifDone ==
  /\ netif # NoBuffer
  /\ handled' = Append(handled, payload[netif])
  /\ FreeRxBuffer(netif)
  /\ netif' = NoBuffer
  /\ UNCHANGED <<spi_rx_queue, spi, queues, process, internal, payload,
                 received>>

----------------------------------------------------------------------------
Process == Fetch \/ DropBroken \/ QueueInternal \/ QueueNetif \/ DropFull
Internal == InternalStart \/ InternalDone
Netif == NetifStart \/ NetifDone

PoolNext ==
  \/ Poll \/ PollFails \/ (\E k \in Kinds : Receive(k))
  \/ Process \/ Internal \/ Netif

PoolSpec == PoolInit /\ [][PoolNext]_poolvars

(* The tasks keep running; nobody has to send a packet.  That the internal *)
(* handler returns is what module RingBroadcast shows of it.               *)
PoolFairness ==
  /\ WF_poolvars(Poll) /\ WF_poolvars(Process)
  /\ WF_poolvars(Internal) /\ WF_poolvars(Netif)

PoolFairSpec == PoolSpec /\ PoolFairness

----------------------------------------------------------------------------
PoolTypeOK ==
  /\ free_buf_queue \in Seq(Buffers) /\ spi_rx_queue \in Seq(Buffers)
  /\ internal_queue \in Seq(Buffers) /\ netif_queue \in Seq(Buffers)
  /\ Len(internal_queue) <= InternalQueueSize
  /\ Len(netif_queue) <= NetifQueueSize
  /\ {spi, process, internal, netif} \subseteq Buffers \cup {NoBuffer}
  /\ payload \in [Buffers -> [kind : Kinds, seq : 0 .. MaxPackets]]
  /\ received \in 0 .. MaxPackets
  /\ \A i \in 1 .. Len(handled) : handled[i].seq \in 1 .. MaxPackets

Held(b) == IF b = NoBuffer THEN <<>> ELSE <<b>>

\* Where the buffers are.
Everywhere ==
  free_buf_queue \o Held(spi) \o spi_rx_queue \o Held(process)
    \o internal_queue \o Held(internal) \o netif_queue \o Held(netif)

\* Every buffer is in exactly one place: none leaks on an error path and none
\* is received into while a task still reads it.
Conserved ==
  /\ Len(Everywhere) = NUM_BUFFERS
  /\ ToSet(Everywhere) = Buffers

\* Each task handles its packets in the order they were received in, each one
\* once, and never a broken one.
HandledInOrder ==
  /\ \A i \in 1 .. Len(handled) : handled[i].kind # "broken"
  /\ \A i, j \in 1 .. Len(handled) :
       i < j /\ handled[i].kind = handled[j].kind
         => handled[i].seq < handled[j].seq

\* The board always gets back to waiting for a packet: the pool is never
\* drained for good.
ReceivesAgain == []<>(spi # NoBuffer)
=============================================================================
