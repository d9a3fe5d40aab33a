---------------------------- MODULE MCLifecycle ----------------------------
(* Model-checking instance of Lifecycle: the calls that can fail, all that *)
(* the model has an error path for.                                        *)
EXTENDS Lifecycle

Fallible == {"dma_mask", "kzalloc", "ioremap", "dma_alloc", "add_adapter",
             "request_irq", "sec", "sec2", "adapter", "dmx", "dmxdev", "fe_hw",
             "fe_mem", "net", "fe", "registered", "registered2"}

=============================================================================
