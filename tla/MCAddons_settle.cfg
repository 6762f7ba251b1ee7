SPECIFICATION AddonsFairSpec
CONSTANTS
    gateway = gateway
    cilium = cilium
    dns = dns
    Builtins <- MCBuiltins
    Dns = dns
    Cni = cilium
    NoAddon = NoAddon
    Priority <- MCPriority
    WithHelm = {cilium, dns}
    WithCRDs = {gateway}
    WithPods = {cilium, dns}
    Scaled = {cilium}
    MaxDisturbances = 1
PROPERTY WavesInOrder
PROPERTY ReadyClusterHasAddons
PROPERTY AddonsSettle
PROPERTY BootstrapSettles
PROPERTY CredentialFollows
